---- MODULE Spec2Model ----
(***************************************************************************)
(* Model of the matchmaking bot: the rating store of src/ratings.py (JSON  *)
(* files, the in-memory cache, backup / restore, the rating update) and    *)
(* the match lifecycle of src/main.py (the current_match singleton, the    *)
(* MatchView button handlers, the match / test / undo commands) run as     *)
(* coroutines of one cooperative event loop.                               *)
(*                                                                         *)
(* Twelve specifications:                                                  *)
(*   SpecStore  the rating store's functions called one at a time, each    *)
(*              either completing or interrupted by a process crash after  *)
(*              any of its file-system effects;                            *)
(*   SpecUndo   the store's functions without crashes: backup, update and  *)
(*              restore in any order;                                      *)
(*   Spec       the bot on a fresh installation: the match and test        *)
(*              commands and the four buttons of a MatchView, interleaved  *)
(*              at their await points;                                     *)
(*   SpecLobby  forming a lobby: the commands, the observer toggle, the    *)
(*              clock, Start Lobby and Cancel Match;                       *)
(*   SpecTeams  _run_match_lobby drawing the teams of 2 to MaxPlayers      *)
(*              players over rating files with a history;                  *)
(*   SpecCandidates  the match and test commands choosing their players    *)
(*              among the members of the caller's voice channel;           *)
(*   SpecReplay the checks of the replay flow over a replay folder;        *)
(*   SpecSessions  graphall's session grouping of one player's history;    *)
(*   SpecHistory   the history and stats commands for one player;          *)
(*   SpecCache  SpecUndo with calls for the live and the test database     *)
(*              in any order;                                              *)
(*   SpecFair   Spec with every suspended handler eventually resumed;      *)
(*   SpecSessionView  the session text and chart views over the databases  *)
(*              that one to MaxHistory rating updates leave.               *)
(***************************************************************************)
EXTENDS Integers, Sequences, FiniteSets, Bags, TLC

\* ------------------------------------------------------------------ bounds

\* Rating updates applied in one behaviour of the store (histories grow
\* without bound).
MaxUpdates == 1
\* Largest value of the wall clock int(time.time()), counted from 0.
MaxTime == 1
\* Process crashes in one behaviour of the store.
MaxCrashes == 1
\* Matches accepted in one behaviour of the bot (each posts one MatchView).
MaxMatches == 2
\* Handler invocations suspended at an await at the same time.
MaxTasks == 2
\* The most players a voice channel hands to _run_match_lobby.
MaxPlayers == 4
\* The longest history of a player the analytics commands are run on.
MaxHistory == 3

\* ---------------------------------------------------------------- constants

\* Ratings are fixed-point numbers in units of 1/3 point, so that
\* CUSTOM_SIGMA = 200.0 / 3.0 is exact and int() has something to truncate.
Unit == 3
\* config.py: CUSTOM_MU = 1200.0 (in points)
CUSTOM_MU == 1200
\* config.py: CUSTOM_SIGMA = 200.0 / 3.0 (in units of 1/3 point)
CUSTOM_SIGMA == 200

DATA_FILE == "player_data.json"
BACKUP_DATA_FILE == "player_data_backup.json"
TEST_DATA_FILE == "test_player_data.json"
TEST_BACKUP_DATA_FILE == "test_player_data_backup.json"
\* The data_file=None argument of the store's functions.
None == "None"

\* tmp_path = data_file + ".tmp"
TmpOf(path) == IF path = DATA_FILE THEN "player_data.json.tmp"
               ELSE "test_player_data.json.tmp"

PersistedFiles == {DATA_FILE, BACKUP_DATA_FILE, TEST_DATA_FILE, TEST_BACKUP_DATA_FILE}
Paths == PersistedFiles \cup {TmpOf(DATA_FILE), TmpOf(TEST_DATA_FILE)}

\* Player ids: three guild members and the four FakeMember ids of /test.
Members == {1, 2, 3}
FakeIds == {9001, 9002, 9003, 9004}
PlayerIds == Members \cup FakeIds

VARIABLES
    files,      \* path -> [exists, torn, db]: the JSON files on disk
    cache,      \* ratings._data_cache: [loaded, data]; loaded = FALSE is None
    now,        \* int(time.time())
    nUpdates,   \* rating updates applied so far (bounds the behaviour)
    last,       \* the store call that ran last: its arguments and outcome
    snap,       \* the database as of the last completed backup_data()
    nCrashes,   \* process crashes so far (bounds the behaviour)
    env,        \* SpecStore, SpecUndo: the data_file this behaviour's calls pass
    current_match,      \* main.current_match
    current_observers,  \* main.current_observers
    bot_settings,       \* main.bot_settings
    views,      \* the MatchView objects, in creation order, and their messages
    tasks,      \* the bag of handler invocations suspended at an await
    guild,      \* the guild's team voice channels and who sits where
    audit       \* per view: what the triggers pressed on it have done so far

storeVars == <<files, cache, now, nUpdates, last, snap, nCrashes, env>>
botVars == <<current_match, current_observers, bot_settings, views, tasks,
             guild, audit>>
vars == <<files, cache, now, nUpdates, last, snap, nCrashes, env,
          current_match, current_observers, bot_settings, views, tasks,
          guild, audit>>

\* ------------------------------------------------------------ rating engine

\* A database is a function from the ids that have a record to the records.
EmptyDB == [p \in {} |-> 0]

\* int(x) of a fixed-point x: truncation toward zero.
int(x) == IF x >= 0 THEN x \div Unit ELSE -((-x) \div Unit)

\* model.rating(mu=, sigma=)
rating(mu, sigma) == [mu |-> mu, sigma |-> sigma]

\* Rating.ordinal(): mu - 3 * sigma (openskill's default z = 3), fixed-point.
ordinal(r) == r.mu - 3 * r.sigma

DefaultRating == rating(CUSTOM_MU * Unit, CUSTOM_SIGMA)

\* model.rate([team1, team2]) of the external openskill library, team1 having
\* beaten team2: the updated ratings in the same per-team, per-slot order.
\* The library's arithmetic is replaced by a fixed step: winners gain mean,
\* losers lose it, everybody's uncertainty shrinks.
RateMuStep == 50
RateSigmaStep == 4
rate(team1, team2) ==
    << [i \in 1..Len(team1) |->
            rating(team1[i].mu + RateMuStep, team1[i].sigma - RateSigmaStep)],
       [i \in 1..Len(team2) |->
            rating(team2[i].mu - RateMuStep, team2[i].sigma - RateSigmaStep)] >>

\* ------------------------------------------------------------- file system

NoFile == [exists |-> FALSE, torn |-> FALSE, db |-> EmptyDB]
\* A file opened for writing and not yet completely written: not valid JSON.
TornFile == [exists |-> TRUE, torn |-> TRUE, db |-> EmptyDB]
FileOf(db) == [exists |-> TRUE, torn |-> FALSE, db |-> db]

NoCache == [loaded |-> FALSE, data |-> EmptyDB]
CacheOf(db) == [loaded |-> TRUE, data |-> db]

\* One point of a store call's execution: the files and the cache after the
\* effect named by `at`.
At(fs, c, at) == [files |-> fs, cache |-> c, at |-> at]

\* os.path.exists(path)
exists(fs, path) == fs[path].exists

\* _read_from_disk(path): {} when the file is missing; json.load raises on a
\* file that is not completely written (ok = FALSE).
read_from_disk(fs, path) ==
    LET file_path == IF path = None THEN DATA_FILE ELSE path IN
    IF ~exists(fs, file_path) THEN [ok |-> TRUE, data |-> EmptyDB]
    ELSE IF fs[file_path].torn THEN [ok |-> FALSE, data |-> EmptyDB]
    ELSE [ok |-> TRUE, data |-> fs[file_path].db]

\* load_data(data_file): the data read, and the cache afterwards.
load_data(fs, c, data_file) ==
    IF data_file # None
    THEN LET r == read_from_disk(fs, data_file) IN
         [ok |-> r.ok, data |-> r.data, cache |-> c]
    ELSE IF ~c.loaded
    THEN LET r == read_from_disk(fs, None) IN
         IF r.ok THEN [ok |-> TRUE, data |-> r.data, cache |-> CacheOf(r.data)]
         ELSE [ok |-> FALSE, data |-> EmptyDB, cache |-> c]
    ELSE [ok |-> TRUE, data |-> c.data, cache |-> c]

\* open(tmp_path, "w"); json.dump(...); os.replace(tmp_path, path): the three
\* file-system effects of one atomic write of `db` to `path`.
WriteViaTmp(fs, c, db, path) ==
    LET tmp == TmpOf(path)
        f1 == [fs EXCEPT ![tmp] = TornFile]
        f2 == [fs EXCEPT ![tmp] = FileOf(db)]
        f3 == [fs EXCEPT ![tmp] = NoFile, ![path] = FileOf(db)]
    IN << At(f1, c, "tmp_open"), At(f2, c, "tmp_written"), At(f3, c, "replaced") >>

\* The same write done in place, without the temporary file.
save_data_in_place(fs, c, hasData, data, data_file) ==
    LET path == IF data_file = None THEN DATA_FILE ELSE data_file
        c1 == IF data_file # None THEN c
              ELSE IF hasData THEN CacheOf(data)
              ELSE IF ~c.loaded THEN CacheOf(EmptyDB) ELSE c
        db == IF data_file # None THEN (IF hasData THEN data ELSE EmptyDB)
              ELSE c1.data
    IN << At(fs, c1, "begin"),
          At([fs EXCEPT ![path] = TornFile], c1, "tmp_open"),
          At([fs EXCEPT ![path] = FileOf(db)], c1, "tmp_written"),
          At([fs EXCEPT ![path] = FileOf(db)], c1, "replaced") >>

\* save_data(data, data_file): the execution as the sequence of its points.
\* hasData = FALSE is data=None.
save_data(fs, c, hasData, data, data_file) ==
    IF data_file # None
    THEN LET d == IF hasData THEN data ELSE EmptyDB IN
         << At(fs, c, "begin") >> \o WriteViaTmp(fs, c, d, data_file)
    ELSE LET c1 == IF hasData THEN CacheOf(data)
                   ELSE IF ~c.loaded THEN CacheOf(EmptyDB) ELSE c
         IN << At(fs, c1, "begin") >> \o WriteViaTmp(fs, c1, c1.data, DATA_FILE)

\* shutil.copy(src, dst): dst is opened for writing (truncated), then filled.
copy(fs, c, src, dst) ==
    << At([fs EXCEPT ![dst] = TornFile], c, "copy_open"),
       At([fs EXCEPT ![dst] = fs[src]], c, "copied") >>

\* The last point of an execution.
Final(traj) == traj[Len(traj)]

BackupPathOf(data_file) ==
    IF data_file = None THEN BACKUP_DATA_FILE ELSE TEST_BACKUP_DATA_FILE

\* backup_data(data_file)
backup_data(fs, c, data_file) ==
    IF data_file # None
    THEN IF ~exists(fs, data_file)
         THEN [ret |-> "None", traj |-> << At(fs, c, "begin") >>]
         ELSE [ret |-> "None",
               traj |-> << At(fs, c, "begin") >>
                        \o copy(fs, c, data_file, TEST_BACKUP_DATA_FILE)]
    ELSE LET l == load_data(fs, c, None) IN
         IF ~l.ok THEN [ret |-> "raise", traj |-> << At(fs, c, "begin") >>]
         ELSE IF l.data = EmptyDB /\ ~exists(fs, DATA_FILE)
         THEN [ret |-> "None", traj |-> << At(fs, l.cache, "begin") >>]
         ELSE LET sv == IF ~exists(fs, DATA_FILE)
                        THEN save_data(fs, l.cache, TRUE, l.data, None)
                        ELSE << At(fs, l.cache, "begin") >>
                  s == Final(sv)
              IN [ret |-> "None",
                  traj |-> sv \o copy(s.files, s.cache, DATA_FILE, BACKUP_DATA_FILE)]

\* restore_backup() that keeps the backup file.
restore_backup_keep(fs, c, data_file) ==
    LET path == IF data_file = None THEN DATA_FILE ELSE data_file
        backup_path == BackupPathOf(data_file)
    IN IF ~exists(fs, backup_path)
       THEN [ret |-> "False", traj |-> << At(fs, c, "begin") >>]
       ELSE LET cp == copy(fs, c, backup_path, path)
                c1 == IF data_file = None THEN NoCache ELSE c
            IN [ret |-> "True",
                traj |-> << At(fs, c, "begin") >> \o cp
                         \o << At(Final(cp).files, c1, "done") >>]

\* restore_backup() that leaves the cache as it is.
restore_backup_stale(fs, c, data_file) ==
    LET path == IF data_file = None THEN DATA_FILE ELSE data_file
        backup_path == BackupPathOf(data_file)
    IN IF ~exists(fs, backup_path)
       THEN [ret |-> "False", traj |-> << At(fs, c, "begin") >>]
       ELSE LET cp == copy(fs, c, backup_path, path)
                f3 == [Final(cp).files EXCEPT ![backup_path] = NoFile]
            IN [ret |-> "True",
                traj |-> << At(fs, c, "begin") >> \o cp
                         \o << At(f3, c, "removed"), At(f3, c, "done") >>]

\* restore_backup(data_file)
restore_backup(fs, c, data_file) ==
    LET path == IF data_file = None THEN DATA_FILE ELSE data_file
        backup_path == BackupPathOf(data_file)
    IN IF ~exists(fs, backup_path)
       THEN [ret |-> "False", traj |-> << At(fs, c, "begin") >>]
       ELSE LET cp == copy(fs, c, backup_path, path)
                f3 == [Final(cp).files EXCEPT ![backup_path] = NoFile]
                c1 == IF data_file = None THEN NoCache ELSE c
            IN [ret |-> "True",
                traj |-> << At(fs, c, "begin") >> \o cp
                         \o << At(f3, c, "removed"), At(f3, c1, "done") >>]

\* get_player_rating(user_id, data_file) that stores the default record of
\* an unknown player (dict.setdefault instead of a membership test).
get_player_rating_materialize(fs, c, user_id, data_file) ==
    LET l == load_data(fs, c, data_file)
        rec == [mu |-> DefaultRating.mu, sigma |-> DefaultRating.sigma,
                history |-> << >>]
        d == IF user_id \in DOMAIN l.data THEN l.data
             ELSE [p \in DOMAIN l.data \cup {user_id} |->
                      IF p = user_id THEN rec ELSE l.data[p]]
    IN [ok |-> l.ok,
        rating |-> rating(d[user_id].mu, d[user_id].sigma),
        cache |-> IF data_file = None /\ l.ok THEN CacheOf(d) ELSE l.cache]

\* get_player_rating(user_id, data_file): the rating returned and the cache
\* afterwards; ok = FALSE when load_data raises.
get_player_rating(fs, c, user_id, data_file) ==
    LET l == load_data(fs, c, data_file) IN
    [ok |-> l.ok,
     rating |-> IF user_id \in DOMAIN l.data
                THEN rating(l.data[user_id].mu, l.data[user_id].sigma)
                ELSE rating(CUSTOM_MU * Unit, CUSTOM_SIGMA),
     cache |-> l.cache]

\* get_player_ordinal(user_id, data_file)
get_player_ordinal(fs, c, user_id, data_file) ==
    int(ordinal(get_player_rating(fs, c, user_id, data_file).rating))

\* The loops of steps 1 and 2 of update_ratings: a default record for every
\* player of `roster` that has none.
RECURSIVE Materialize(_, _)
Materialize(data, roster) ==
    IF roster = << >> THEN data
    ELSE LET p == Head(roster)
             d == IF p \in DOMAIN data THEN data
                  ELSE [q \in DOMAIN data \cup {p} |->
                          IF q = p
                          THEN [mu |-> CUSTOM_MU * Unit, sigma |-> CUSTOM_SIGMA,
                                history |-> << >>]
                          ELSE data[q]]
         IN Materialize(d, Tail(roster))

\* team1_ratings / team2_ratings
TeamRatings(data, roster) ==
    [i \in 1..Len(roster) |-> rating(data[roster[i]].mu, data[roster[i]].sigma)]

\* The loops of steps 4 and 5 of update_ratings that put into the history
\* entry the ordinal of the rating the player had before the match.
RECURSIVE WriteBack_old_mmr(_, _, _, _, _, _)
WriteBack_old_mmr(data, roster, updated, result, match_time, i) ==
    IF i > Len(roster) THEN data
    ELSE LET p == roster[i]
             new_r == updated[i]
             entry == [timestamp |-> match_time,
                       mmr |-> int(ordinal(rating(data[p].mu, data[p].sigma))),
                       result |-> result]
             d == [data EXCEPT ![p] = [mu |-> new_r.mu, sigma |-> new_r.sigma,
                                       history |-> Append(data[p].history, entry)]]
         IN WriteBack_old_mmr(d, roster, updated, result, match_time, i + 1)

\* The loops of steps 4 and 5 of update_ratings, from slot i on: write back
\* mu and sigma and append one history entry.
RECURSIVE WriteBack(_, _, _, _, _, _)
WriteBack(data, roster, updated, result, match_time, i) ==
    IF i > Len(roster) THEN data
    ELSE LET p == roster[i]
             new_r == updated[i]
             entry == [timestamp |-> match_time,
                       mmr |-> int(ordinal(new_r)),
                       result |-> result]
             d == [data EXCEPT ![p] = [mu |-> new_r.mu, sigma |-> new_r.sigma,
                                       history |-> Append(data[p].history, entry)]]
         IN WriteBack(d, roster, updated, result, match_time, i + 1)

\* The database update_ratings saves, from the database it loaded.
Rated(data, winners, losers, match_time) ==
    LET d1 == Materialize(Materialize(data, winners), losers)
        updated_teams == rate(TeamRatings(d1, winners), TeamRatings(d1, losers))
        d2 == WriteBack(d1, winners, updated_teams[1], "Win", match_time, 1)
    IN WriteBack(d2, losers, updated_teams[2], "Loss", match_time, 1)

\* update_ratings() that records every participant as a winner.
update_ratings_all_win(fs, c, winners, losers, data_file, match_time) ==
    LET l == load_data(fs, c, data_file) IN
    IF ~l.ok THEN [ret |-> "raise", traj |-> << At(fs, c, "begin") >>]
    ELSE LET d1 == Materialize(Materialize(l.data, winners), losers)
             updated_teams == rate(TeamRatings(d1, winners), TeamRatings(d1, losers))
             d2 == WriteBack(d1, winners, updated_teams[1], "Win", match_time, 1)
             data == WriteBack(d2, losers, updated_teams[2], "Win", match_time, 1)
             c1 == IF data_file = None THEN CacheOf(data) ELSE l.cache
         IN [ret |-> "None", traj |-> save_data(fs, c1, TRUE, data, data_file)]

\* update_ratings() that rates a copy of the database and writes it to the
\* file, the cache left as load_data() made it.
update_ratings_on_copy(fs, c, winners, losers, data_file, match_time) ==
    LET l == load_data(fs, c, data_file) IN
    IF ~l.ok THEN [ret |-> "raise", traj |-> << At(fs, c, "begin") >>]
    ELSE LET data == Rated(l.data, winners, losers, match_time)
             path == IF data_file = None THEN DATA_FILE ELSE data_file
         IN [ret |-> "None",
             traj |-> << At(fs, l.cache, "begin") >>
                      \o WriteViaTmp(fs, l.cache, data, path)]

\* update_ratings(winners, losers, data_file), match_time = int(time.time()).
\* Without data_file the dict is the cache itself and is changed in place.
update_ratings(fs, c, winners, losers, data_file, match_time) ==
    LET l == load_data(fs, c, data_file) IN
    IF ~l.ok THEN [ret |-> "raise", traj |-> << At(fs, c, "begin") >>]
    ELSE LET data == Rated(l.data, winners, losers, match_time)
             c1 == IF data_file = None THEN CacheOf(data) ELSE l.cache
         IN [ret |-> "None", traj |-> save_data(fs, c1, TRUE, data, data_file)]

\* display_mmr(pid, data_file): "0" for a player with no record.
display_mmr(fs, c, pid, data_file) ==
    LET l == load_data(fs, c, data_file) IN
    IF pid \in DOMAIN l.data
    THEN int(ordinal(rating(l.data[pid].mu, l.data[pid].sigma)))
    ELSE 0

\* ------------------------------------------------------- the store, called

DataFiles == {None, TEST_DATA_FILE}
PathOf(data_file) == IF data_file = None THEN DATA_FILE ELSE data_file

\* The (winners, losers) pairs the store is called with: sequences of distinct
\* players, as a voice channel gives them; player 3 sits some matches out.
Matchups == { <<<<1>>, <<2>>>>, <<<<2>>, <<1>>>>,
              <<<<1, 2>>, <<3>>>>, <<<<3>>, <<2, 1>>>> }
Range(s) == {s[i] : i \in 1..Len(s)}

NoCall == [op |-> "none", ret |-> "None", crashed |-> FALSE,
           at |-> "begin", winners |-> << >>, losers |-> << >>, uid |-> 0,
           rating |-> DefaultRating, time |-> 0,
           players |-> << >>, balanced |-> FALSE, log |-> << >>,
           latest_file |-> [mtime |-> 0, size |-> 0],
           session_data |-> << >>, reply |-> << >>]

\* snap: db is the database backup_data() saw, copied whether it wrote the
\* backup file, updates the value of nUpdates then, restores the restore_backup()
\* calls completed since (at most 2 are counted).
NoSnap == [valid |-> FALSE, db |-> EmptyDB, copied |-> FALSE,
           updates |-> 0, restores |-> 0]

\* The database one earlier match leaves behind.
PriorDB == Rated(EmptyDB, <<1, 2>>, <<3>>, 0)

\* ---------------------------------------------------------------- bot state

\* main.py 77-83: current_match as the module creates it.
Idle == [active |-> FALSE, team_1 |-> << >>, team_2 |-> << >>,
         lobby_channel |-> None, test_mode |-> FALSE]

\* The voice channels a member can sit in; NoVoice is member.voice = None.
Lobby == "Lobby"
TeamVC == "Team"
NoVoice == "NoVoice"

\* The buttons of a MatchView by custom_id; btn_red and btn_blue are always
\* enabled and disabled together and are the one entry "win". A view or a
\* message is described by the set of its enabled buttons.
Forming == {"start", "cancel"}
\* The same without the Start Lobby button: only the win buttons change.
set_win_buttons_only(b, enabled) ==
    IF enabled THEN b \cup {"win"} ELSE b \ {"win"}
\* _set_win_buttons_enabled(enabled) on a view whose enabled buttons are b.
set_win_buttons_enabled(b, enabled) ==
    IF enabled THEN (b \ {"start"}) \cup {"win"}
    ELSE (b \ {"win"}) \cup {"start"}
\* for child in self.children: child.disabled = True
AllDisabled == {}

\* MatchView(lobby_started=False), and the message it is sent with.
NewView == [lobby_started |-> FALSE,
            children |-> set_win_buttons_enabled(Forming, FALSE),
            message |-> set_win_buttons_enabled(Forming, FALSE)]

\* audit[v]: what the triggers pressed on view v have done.
\*   rated      update_ratings() calls made by win triggers of this view
\*              (the count stops at 2)
\*   cancelled  "Match cancelled. No MMR was changed." was sent
\*   twoWins    two win triggers of this view, one pressed while the other
\*              was in flight, both passed the check of
\*              current_match["active"]
\*   winCancel  a win trigger and a cancel trigger of this view, one pressed
\*              while the other was in flight, both passed it
\*   test, at   the match of this view was started by /test; the reading of
\*              the clock when it was started
NoAudit == [rated |-> 0, cancelled |-> FALSE, twoWins |-> FALSE,
            winCancel |-> FALSE, test |-> FALSE, at |-> 0, replays |-> 0]
Inc(n) == IF n < 2 THEN n + 1 ELSE 2

\* A handler invocation. pc names the await it is suspended at; the other
\* fields are its arguments and the locals it reads after that await.
\* raced: while it was in flight, a win trigger of the same view that passed
\* the check was in flight too. log: the stages of handle_victory_slash this
\* invocation has completed, in the order it completed them. rosters: the
\* teams of current_match when the win trigger passed the check, kept until
\* the invocation has rated.
NoTask == [kind |-> "none", pc |-> "idle", view |-> 0, winner |-> "none",
           user |-> 0, players |-> {}, lobby |-> None, vcs |-> FALSE,
           payload |-> {}, time |-> 0, raced |-> FALSE, balanced |-> FALSE,
           test_mode |-> FALSE, log |-> << >>, rosters |-> << >>]

\* bot_settings["last_lobby_time"] = 0.0 is the epoch; the model's clock
\* counts from the start of the process, far more than an hour later.
Epoch == -1
\* main.py 904: 3600 seconds, in ticks of the model's clock. A tick is a
\* step of more than an hour, so two readings are over 3600 s apart exactly
\* when they differ.
HourInTicks == 0

BotInit ==
    /\ current_match = Idle
    /\ current_observers = {}
    /\ bot_settings = [auto_replay |-> TRUE, last_lobby_time |-> Epoch]
    /\ views = << >>
    /\ tasks = EmptyBag
    /\ guild = [vcs |-> FALSE, voice |-> [m \in Members |-> Lobby]]
    /\ audit = << >>

\* The process starts with no cache. Either nothing was ever played (no
\* file), or one match was (the file holds its result; the first match's
\* backup_data() found no file and wrote no backup).
StoreInit ==
    /\ env \in DataFiles
    /\ \E played \in BOOLEAN :
          files = [p \in Paths |->
                     IF played /\ p = PathOf(env) THEN FileOf(PriorDB) ELSE NoFile]
    /\ cache = NoCache
    /\ now = 0
    /\ nUpdates = 0
    /\ nCrashes = 0
    /\ last = NoCall
    /\ snap = NoSnap
    /\ BotInit

\* The outcome of a store call whose execution is `traj`: it returns (k is the
\* last point), or the process dies at point k and restarts with no cache.
Outcome(traj, k, crashed) ==
    /\ k \in 1..Len(traj)
    /\ ~crashed => k = Len(traj)
    /\ crashed => nCrashes < MaxCrashes
    /\ nCrashes' = IF crashed THEN nCrashes + 1 ELSE nCrashes
    /\ files' = traj[k].files
    /\ cache' = IF crashed THEN NoCache ELSE traj[k].cache
    /\ UNCHANGED <<env, botVars>>

\* `snap` after a call that is neither backup_data() nor restore_backup(): a
\* crash that changed a file ends the sequence the snapshot is about.
SnapAfter(crashed) ==
    IF crashed /\ files' # files THEN [snap EXCEPT !.valid = FALSE] ELSE snap

\* trackLast: the call is recorded in `last`; trackSnap: `snap` is kept and
\* the process does not crash. SpecStore records every call and lets the
\* process crash; SpecUndo records backup_data(), restore_backup() and the
\* snapshot.

\* The clock advances (in the bot by more than an hour, see HourInTicks; no
\* handler stays suspended at an await that long).
Tick ==
    /\ now < MaxTime
    /\ tasks = EmptyBag
    /\ now' = now + 1
    /\ last' = NoCall
    /\ UNCHANGED <<files, cache, nUpdates, snap, nCrashes, env, botVars>>

StoreLoad(trackLast) ==
    LET l == load_data(files, cache, env) IN
    /\ cache' = l.cache
    /\ last' = IF trackLast
               THEN [NoCall EXCEPT !.op = "load_data",
                                   !.ret = IF l.ok THEN "None" ELSE "raise"]
               ELSE NoCall
    /\ UNCHANGED <<files, now, nUpdates, snap, nCrashes, env, botVars>>

StoreGetRating(trackLast) ==
    \E uid \in Members :
        LET g == get_player_rating(files, cache, uid, env) IN
        /\ cache' = g.cache
        /\ last' = IF trackLast
                   THEN [NoCall EXCEPT !.op = "get_player_rating", !.uid = uid,
                                       !.ret = IF g.ok THEN "None" ELSE "raise",
                                       !.rating = g.rating]
                   ELSE NoCall
        /\ UNCHANGED <<files, now, nUpdates, snap, nCrashes, env, botVars>>

\* save_data(data, data_file) as its callers call it: data is the database
\* load_data(data_file) returned, and it has a record.
StoreSave(trackLast, trackSnap) ==
    \E k \in 1..4, crashed \in BOOLEAN :
        LET l == load_data(files, cache, env)
            traj == save_data(files, l.cache, TRUE, l.data, env)
        IN
        /\ l.ok
        /\ l.data # EmptyDB
        /\ trackSnap => ~crashed
        /\ Outcome(traj, k, crashed)
        /\ last' = IF trackLast
                   THEN [NoCall EXCEPT !.op = "save_data", !.crashed = crashed,
                                       !.at = traj[k].at]
                   ELSE NoCall
        /\ snap' = IF trackSnap THEN SnapAfter(crashed) ELSE snap
        /\ UNCHANGED <<now, nUpdates>>

StoreUpdate(trackLast, trackSnap) ==
    \E m \in Matchups, k \in 1..4, crashed \in BOOLEAN :
        LET winners == m[1]
            losers == m[2]
            r == update_ratings(files, cache, winners, losers, env, now)
        IN
        /\ nUpdates < MaxUpdates
        /\ trackSnap => ~crashed
        /\ Outcome(r.traj, k, crashed)
        /\ nUpdates' = nUpdates + 1
        /\ last' = IF trackLast
                   THEN [NoCall EXCEPT !.op = "update_ratings", !.ret = r.ret,
                                       !.crashed = crashed, !.at = r.traj[k].at,
                                       !.winners = winners, !.losers = losers,
                                       !.time = now]
                   ELSE NoCall
        /\ snap' = IF trackSnap THEN SnapAfter(crashed) ELSE snap
        /\ UNCHANGED now

StoreBackup(trackSnap) ==
    \E k \in 1..6, crashed \in BOOLEAN :
        LET r == backup_data(files, cache, env)
            l == load_data(files, cache, env)
        IN
        /\ trackSnap => ~crashed
        /\ Outcome(r.traj, k, crashed)
        /\ last' = [NoCall EXCEPT !.op = "backup_data", !.ret = r.ret,
                                  !.crashed = crashed, !.at = r.traj[k].at]
        /\ snap' = IF ~trackSnap THEN snap
                   ELSE IF crashed \/ r.ret = "raise" \/ ~l.ok THEN SnapAfter(crashed)
                   ELSE [valid |-> TRUE, db |-> l.data,
                         copied |-> Final(r.traj).at = "copied",
                         updates |-> nUpdates, restores |-> 0]
        /\ UNCHANGED <<now, nUpdates>>

StoreRestore(trackSnap) ==
    \E k \in 1..5, crashed \in BOOLEAN :
        LET r == restore_backup(files, cache, env) IN
        /\ trackSnap => ~crashed
        /\ Outcome(r.traj, k, crashed)
        /\ last' = [NoCall EXCEPT !.op = "restore_backup", !.ret = r.ret,
                                  !.crashed = crashed, !.at = r.traj[k].at]
        /\ snap' = IF ~trackSnap THEN snap
                   ELSE IF crashed THEN SnapAfter(crashed)
                   ELSE [snap EXCEPT !.restores = IF @ < 2 THEN @ + 1 ELSE 2]
        /\ UNCHANGED <<now, nUpdates>>

StoreNext ==
    \/ Tick
    \/ StoreLoad(TRUE)
    \/ StoreGetRating(TRUE)
    \/ StoreSave(TRUE, FALSE)
    \/ StoreUpdate(TRUE, FALSE)
    \/ StoreBackup(FALSE)
    \/ StoreRestore(FALSE)

SpecStore == StoreInit /\ [][StoreNext]_vars

UndoNext ==
    \/ Tick
    \/ StoreLoad(FALSE)
    \/ StoreGetRating(FALSE)
    \/ StoreSave(FALSE, TRUE)
    \/ StoreUpdate(FALSE, TRUE)
    \/ StoreBackup(TRUE)
    \/ StoreRestore(TRUE)

SpecUndo == StoreInit /\ [][UndoNext]_vars

\* The callers of the store pass data_file=TEST_DATA_FILE for a test match
\* and nothing for a live one: the next calls are for the other environment.
SwitchEnv ==
    /\ env' \in DataFiles \ {env}
    /\ last' = NoCall
    /\ UNCHANGED <<files, cache, now, nUpdates, snap, nCrashes, botVars>>

CacheNext == UndoNext \/ SwitchEnv

SpecCache == StoreInit /\ [][CacheNext]_vars

\* --------------------------------------------------------------- event loop

\* One cooperative event loop: a handler runs from one await to the next
\* without interruption. An action below is either the start of a handler (a
\* button press or a command) up to its first await, or the resumption of a
\* suspended handler up to its next await. The effect of an awaited platform
\* call (a message edit, a move, a channel deletion) is applied when the
\* handler resumes.

RECURSIVE SeqOf(_)
\* The members of S in ascending order (the order inside a team only orders
\* the lines of the embeds).
SeqOf(S) ==
    IF S = {} THEN << >>
    ELSE LET m == CHOOSE x \in S : \A y \in S : x <= y
         IN << m >> \o SeqOf(S \ {m})

\* The member who issues the commands (/match, /test, /obs).
Callers == {1}

ViewIds == 1..Len(views)
\* tasks is the bag of the suspended handler invocations.
Suspended == BagToSet(tasks)
\* The event loop takes another handler while fewer than MaxTasks wait.
Room == BagCardinality(tasks) < MaxTasks
\* A handler suspends as t; the handler suspended as t resumes and suspends
\* again as t2; the handler suspended as t resumes and ends.
Suspend(t) == tasks (+) SetToBag({t})
Resume(t, t2) == (tasks (-) SetToBag({t})) (+) SetToBag({t2})
End(t) == tasks (-) SetToBag({t})
\* A handler of this kind, started on view v, is suspended.
InFlight(kind, v) == \E t \in Suspended : t.kind = kind /\ t.view = v
\* tasks, with every suspended handler of this kind started on view v
\* marked as having raced.
Raced(kind, v) ==
    LET mark(t) == IF t.kind = kind /\ t.view = v
                   THEN [t EXCEPT !.raced = TRUE] ELSE t
        marked == {mark(t) : t \in Suspended}
    IN [m \in marked |->
          BagCardinality([t \in {x \in Suspended : mark(x) = m} |->
                            CopiesIn(t, tasks)])]
\* The number of commands in flight that may still post a MatchView.
Starting ==
    LET s == {t \in Suspended : t.kind \in {"match", "test"}}
    IN IF s = {} THEN 0 ELSE BagCardinality([t \in s |-> CopiesIn(t, tasks)])

\* getattr(p, "voice", None) and p.voice: FakeMember has no voice attribute.
HasVoice(g, p) == p \in Members /\ g.voice[p] # NoVoice
\* [m for m in vc_red.members if m.id in current_observers] and the same
\* for vc_blue.
TeamObservers(g) ==
    IF g.vcs
    THEN {m \in Members : g.voice[m] = TeamVC /\ m \in current_observers}
    ELSE {}
\* [m for m in lobby_channel.members if m.id in current_observers], when
\* there is a lobby channel.
ObserversIn(g, lobby) ==
    IF lobby = None THEN {}
    ELSE {m \in Members : g.voice[m] = lobby /\ m \in current_observers}
\* await p.move_to(channel) for p in who, HTTPException swallowed: a move
\* into a channel that no longer exists fails.
move_to(g, who, channel) ==
    IF channel = None \/ (channel = TeamVC /\ ~g.vcs) THEN g
    ELSE [g EXCEPT !.voice = [m \in Members |->
                                 IF m \in who /\ g.voice[m] # NoVoice
                                 THEN channel ELSE g.voice[m]]]
\* await vc_red.delete(); await vc_blue.delete(): whoever still sits in a
\* deleted channel loses the voice connection.
delete_channels(g) ==
    [vcs |-> FALSE,
     voice |-> [m \in Members |->
                  IF g.voice[m] = TeamVC THEN NoVoice ELSE g.voice[m]]]

\* The variables no handler of the bot writes.
BotFrame == UNCHANGED <<snap, nCrashes, env>>

\* ---- MatchView.resolve_match / handle_victory_slash

\* red_wins / blue_wins -> resolve_match, lines 263-277: the check of
\* current_match["active"], the flip, then await interaction.response.defer().
PressWin ==
    \E v \in ViewIds, winner \in {"red", "blue"} :
        /\ "win" \in views[v].message
        /\ IF ~current_match.active
           THEN UNCHANGED <<current_match, tasks, audit>>
           ELSE /\ Room
                /\ current_match' = [current_match EXCEPT !.active = FALSE]
                /\ tasks' = Raced("cancel", v)
                              (+) SetToBag({[NoTask EXCEPT !.kind = "win",
                                                           !.pc = "win_defer",
                                                           !.view = v,
                                                           !.winner = winner,
                                                           !.rosters =
                                                              << current_match.team_1,
                                                                 current_match.team_2 >>]})
                /\ audit' = [audit EXCEPT ![v].twoWins = @ \/ InFlight("win", v)]
        /\ last' = NoCall
        /\ UNCHANGED <<files, cache, now, nUpdates, current_observers,
                       bot_settings, views, guild>>
        /\ BotFrame

\* resolve_match, lines 280-282: disable the children, await message.edit.
WinDeferred ==
    \E t \in Suspended :
        /\ t.pc = "win_defer"
        /\ views' = [views EXCEPT ![t.view].children = AllDisabled]
        /\ tasks' = Resume(t, [t EXCEPT !.pc = "win_edit", !.payload = AllDisabled])
        /\ last' = NoCall
        /\ UNCHANGED <<files, cache, now, nUpdates, current_match,
                       current_observers, bot_settings, guild, audit>>
        /\ BotFrame

\* handle_victory_slash, lines 607-613.
reset_state(cm) == Idle

\* handle_victory_slash, lines 607-645: test_mode is kept in a local, the
\* state is reset, the result embed is built and awaited
\* (interaction.followup.send).
announce(t, log) ==
    [NoTask EXCEPT !.kind = t.kind, !.view = t.view, !.pc = "win_announce",
                   !.test_mode = current_match.test_mode,
                   !.log = log \o << "reset" >>]

\* handle_victory_slash, lines 595-602: where the handler goes once the
\* moves are done: it awaits the deletion of the team channels if there are
\* any, else ("idle") it runs to the reset of the state.
AfterMoves(g) == IF g.vcs THEN "win_delete" ELSE "idle"

\* resolve_match line 285 -> handle_victory_slash, lines 518-592: the edit
\* lands; teams, test_mode and the lobby are read from current_match now;
\* backup_data, update_ratings; then the moves back to the lobby.
\* model.rate is an external library: with an empty team it either raises
\* or rates nobody.
\* What snap records in the bot: the live database as a read saw it before
\* the last live rating update that rated a player.
BeforeUpdate(db) == [NoSnap EXCEPT !.valid = TRUE, !.db = db]

WinEdited ==
    \E t \in Suspended, raises \in BOOLEAN :
        LET v == t.view
            team_red == current_match.team_1
            team_blue == current_match.team_2
            winners == IF t.winner = "red" THEN team_red ELSE team_blue
            losers == IF t.winner = "red" THEN team_blue ELSE team_red
            test_mode == current_match.test_mode
            data_file == IF test_mode THEN TEST_DATA_FILE ELSE None
            b == Final(backup_data(files, cache, data_file).traj)
            u == Final(update_ratings(b.files, b.cache, winners, losers,
                                      data_file, now).traj)
            lobby == current_match.lobby_channel
            all_players == Range(team_red) \cup Range(team_blue)
            who == {p \in all_players \cup TeamObservers(guild) :
                       HasVoice(guild, p)}
            moving == lobby # None /\ who # {}
            pc == IF moving THEN "win_moves" ELSE AfterMoves(guild)
        IN
        /\ t.pc = "win_edit"
        /\ raises => (winners = << >> \/ losers = << >>)
        /\ views' = [views EXCEPT ![v].message = t.payload]
        /\ IF raises
           THEN /\ files' = b.files
                /\ cache' = b.cache
                /\ tasks' = End(t)
                /\ UNCHANGED <<nUpdates, current_match, audit, snap>>
           ELSE /\ files' = u.files
                /\ cache' = u.cache
                /\ nUpdates' = nUpdates + 1
                /\ snap' = IF test_mode \/ (winners = << >> /\ losers = << >>)
                           THEN snap
                           ELSE BeforeUpdate(load_data(files, cache, None).data)
                /\ audit' = [audit EXCEPT ![v].rated = Inc(@)]
                /\ tasks' = IF pc = "idle"
                            THEN Resume(t, announce(t, << "backup", "update" >>))
                            ELSE Resume(t, [t EXCEPT !.pc = pc,
                                                     !.winner = "none",
                                                     !.payload = {},
                                                     !.players = IF moving THEN who ELSE {},
                                                     !.lobby = IF moving THEN lobby ELSE None,
                                                     !.log = << "backup", "update" >>,
                                                     !.rosters = << >>])
                /\ current_match' = IF pc = "idle"
                                    THEN reset_state(current_match)
                                    ELSE current_match
        /\ last' = NoCall
        /\ UNCHANGED <<now, current_observers, bot_settings, guild>>
        /\ UNCHANGED <<nCrashes, env>>

\* handle_victory_slash, lines 587-598: the players are back in the lobby;
\* the team channels are looked up and, if there are any, deleted.
WinMoved ==
    \E t \in Suspended :
        LET g == move_to(guild, t.players, t.lobby)
            pc == AfterMoves(g)
        IN
        /\ t.pc = "win_moves"
        /\ guild' = g
        /\ tasks' = IF pc = "idle"
                    THEN Resume(t, announce(t, t.log \o << "moves" >>))
                    ELSE Resume(t, [t EXCEPT !.pc = pc, !.players = {},
                                             !.lobby = None,
                                             !.log = @ \o << "moves" >>])
        /\ current_match' = IF pc = "idle" THEN reset_state(current_match)
                            ELSE current_match
        /\ last' = NoCall
        /\ UNCHANGED <<files, cache, now, nUpdates, current_observers,
                       bot_settings, views, audit>>
        /\ BotFrame

\* handle_victory_slash, lines 600-613: the channels are deleted and the
\* state is reset. Deleting a channel another handler has deleted meanwhile
\* raises NotFound, which ends the handler before the reset.
WinDeleted ==
    \E t \in Suspended :
        /\ t.pc = "win_delete"
        /\ guild' = delete_channels(guild)
        /\ tasks' = IF guild.vcs
                    THEN Resume(t, announce(t, t.log \o << "delete" >>))
                    ELSE End(t)
        /\ current_match' = IF guild.vcs THEN reset_state(current_match)
                            ELSE current_match
        /\ last' = NoCall
        /\ UNCHANGED <<files, cache, now, nUpdates, current_observers,
                       bot_settings, views, audit>>
        /\ BotFrame

\* What `last` records when a resolution ends: how it ended and its stages.
Resolved(ret, log) == [NoCall EXCEPT !.op = "resolve", !.ret = ret, !.log = log]

\* handle_victory_slash, lines 634-658: the result is announced; unless the
\* match was a test or auto-replay is off, the replay flow begins and awaits
\* its status message (replay_channel.send).
WinAnnounced ==
    \E t \in Suspended :
        LET log == t.log \o << "announce" >> IN
        /\ t.pc = "win_announce"
        /\ IF ~t.test_mode /\ bot_settings.auto_replay
           THEN /\ tasks' = Resume(t, [t EXCEPT !.pc = "win_replay", !.log = log])
                /\ audit' = [audit EXCEPT ![t.view].replays = Inc(@)]
                /\ last' = NoCall
           ELSE /\ tasks' = End(t)
                /\ last' = Resolved("no_replay", log)
                /\ UNCHANGED audit
        /\ UNCHANGED <<files, cache, now, nUpdates, current_match,
                       current_observers, bot_settings, views, guild>>
        /\ BotFrame

\* A replay flow that puts the match state back to Idle when it ends.
WinReplayedResetting ==
    \E t \in Suspended, outcome \in {"folder_missing", "upload_failed"} :
        /\ t.pc = "win_replay"
        /\ tasks' = End(t)
        /\ current_match' = reset_state(current_match)
        /\ last' = Resolved(outcome, t.log \o << "replay" >>)
        /\ UNCHANGED <<files, cache, now, nUpdates, current_observers,
                       bot_settings, views, guild, audit>>
        /\ BotFrame

\* How the replay flow ends: one of its four checks fails (lines 660-698),
\* the upload succeeds, or Discord rejects the file (lines 726-735).
ReplayOutcomes == {"folder_missing", "folder_empty", "too_old", "too_large",
                   "uploaded", "upload_failed"}

\* handle_victory_slash, lines 656-735: the replay flow from its status
\* message on. Only a flow that passes the four checks builds the replay
\* embed, whose display_mmr() calls read the live ratings (lines 700-710).
WinReplayed ==
    \E t \in Suspended, outcome \in ReplayOutcomes :
        /\ t.pc = "win_replay"
        /\ tasks' = End(t)
        /\ cache' = IF outcome \in {"uploaded", "upload_failed"}
                    THEN load_data(files, cache, None).cache
                    ELSE cache
        /\ last' = Resolved(outcome, t.log \o << "replay" >>)
        /\ UNCHANGED <<files, now, nUpdates, current_match,
                       current_observers, bot_settings, views, guild, audit>>
        /\ BotFrame

\* ---- MatchView.cancel_match

\* cancel_match, line 214: await interaction.response.defer().
PressCancel ==
    \E v \in ViewIds :
        /\ "cancel" \in views[v].message
        /\ Room
        /\ tasks' = Suspend([NoTask EXCEPT !.kind = "cancel",
                                           !.pc = "cancel_defer",
                                           !.view = v,
                                           !.raced = InFlight("win", v)])
        /\ last' = NoCall
        /\ UNCHANGED <<files, cache, now, nUpdates, current_match,
                       current_observers, bot_settings, views, guild, audit>>
        /\ BotFrame

\* cancel_match, lines 256-258: disable the children, await message.edit.
disable_and_edit(t) ==
    [NoTask EXCEPT !.kind = t.kind, !.view = t.view, !.pc = "cancel_edit",
                   !.payload = AllDisabled]

\* cancel_match, lines 216-258: the check of current_match["active"] and the
\* flip; if the lobby was started, the channels are looked up and the
\* players and observers moved back.
CancelDeferred ==
    \E t \in Suspended :
        LET v == t.view
            lobby == current_match.lobby_channel
            all_players == Range(current_match.team_1)
                             \cup Range(current_match.team_2)
            who == {p \in all_players \cup TeamObservers(guild) :
                       HasVoice(guild, p)}
            started == views[v].lobby_started /\ lobby # None
            moving == who # {}
        IN
        /\ t.pc = "cancel_defer"
        /\ IF ~current_match.active
           THEN /\ tasks' = End(t)
                /\ UNCHANGED <<current_match, views, audit>>
           ELSE /\ current_match' = [current_match EXCEPT !.active = FALSE,
                                                          !.test_mode = FALSE]
                /\ audit' = [audit EXCEPT ![v].winCancel = @ \/ t.raced]
                /\ IF started /\ moving
                   THEN /\ tasks' = Resume(t, [t EXCEPT !.pc = "cancel_moves",
                                                         !.players = who,
                                                         !.lobby = lobby,
                                                         !.vcs = guild.vcs])
                        /\ UNCHANGED views
                   ELSE IF started /\ guild.vcs
                   THEN /\ tasks' = Resume(t, [t EXCEPT !.pc = "cancel_delete"])
                        /\ UNCHANGED views
                   ELSE /\ tasks' = Resume(t, disable_and_edit(t))
                        /\ views' = [views EXCEPT ![v].children = AllDisabled]
        /\ last' = NoCall
        /\ UNCHANGED <<files, cache, now, nUpdates, current_observers,
                       bot_settings, guild>>
        /\ BotFrame

\* cancel_match, lines 240-251: the moves are done; the channels found at
\* lines 232-233 are deleted.
CancelMoved ==
    \E t \in Suspended :
        /\ t.pc = "cancel_moves"
        /\ guild' = move_to(guild, t.players, t.lobby)
        /\ IF t.vcs
           THEN /\ tasks' = Resume(t, [t EXCEPT !.pc = "cancel_delete",
                                                 !.players = {},
                                                 !.lobby = None,
                                                 !.vcs = FALSE])
                /\ UNCHANGED views
           ELSE /\ tasks' = Resume(t, disable_and_edit(t))
                /\ views' = [views EXCEPT ![t.view].children = AllDisabled]
        /\ last' = NoCall
        /\ UNCHANGED <<files, cache, now, nUpdates, current_match,
                       current_observers, bot_settings, audit>>
        /\ BotFrame

\* cancel_match, lines 248-258: the channels are deleted, the children
\* disabled. Deleting a channel another handler has deleted meanwhile raises
\* NotFound, which ends the handler.
CancelDeleted ==
    \E t \in Suspended :
        /\ t.pc = "cancel_delete"
        /\ guild' = delete_channels(guild)
        /\ IF guild.vcs
           THEN /\ tasks' = Resume(t, disable_and_edit(t))
                /\ views' = [views EXCEPT ![t.view].children = AllDisabled]
           ELSE /\ tasks' = End(t)
                /\ UNCHANGED views
        /\ last' = NoCall
        /\ UNCHANGED <<files, cache, now, nUpdates, current_match,
                       current_observers, bot_settings, audit>>
        /\ BotFrame

\* A cancellation that also drops the ratings held in memory.
CancelEditedForgetting ==
    \E t \in Suspended :
        /\ t.pc = "cancel_edit"
        /\ views' = [views EXCEPT ![t.view].message = t.payload]
        /\ audit' = [audit EXCEPT ![t.view].cancelled = TRUE]
        /\ tasks' = End(t)
        /\ last' = NoCall
        /\ cache' = NoCache
        /\ UNCHANGED <<files, now, nUpdates, current_match,
                       current_observers, bot_settings, guild>>
        /\ BotFrame

\* cancel_match, lines 258-260: the edit lands, "Match cancelled. No MMR was
\* changed." is sent.
CancelEdited ==
    \E t \in Suspended :
        /\ t.pc = "cancel_edit"
        /\ views' = [views EXCEPT ![t.view].message = t.payload]
        /\ audit' = [audit EXCEPT ![t.view].cancelled = TRUE]
        /\ tasks' = End(t)
        /\ last' = NoCall
        /\ UNCHANGED <<files, cache, now, nUpdates, current_match,
                       current_observers, bot_settings, guild>>
        /\ BotFrame

\* ---- MatchView.start_lobby

\* start_lobby, lines 118-123: the check of current_match.get("active"),
\* then await interaction.response.defer().
PressStart ==
    \E v \in ViewIds :
        /\ "start" \in views[v].message
        /\ IF ~current_match.active
           THEN UNCHANGED tasks
           ELSE /\ Room
                /\ tasks' = Suspend([NoTask EXCEPT !.kind = "start",
                                                   !.pc = "start_defer",
                                                   !.view = v])
        /\ last' = NoCall
        /\ UNCHANGED <<files, cache, now, nUpdates, current_match,
                       current_observers, bot_settings, views, guild, audit>>
        /\ BotFrame

\* start_lobby, lines 170-172: the lobby is started, the win buttons are
\* enabled, await message.edit.
lobby_started(view) ==
    [view EXCEPT !.lobby_started = TRUE,
                 !.children = set_win_buttons_enabled(@, TRUE)]

\* start_lobby, lines 125-172: teams and lobby are read from current_match;
\* the team channels are created if missing; the players are moved.
StartDeferred ==
    \E t \in Suspended :
        LET v == t.view
            all_players == {p \in Range(current_match.team_1)
                                     \cup Range(current_match.team_2) :
                               p \in Members}
            lobby == current_match.lobby_channel
            moving == \/ \E p \in all_players : HasVoice(guild, p)
                      \/ ObserversIn(guild, lobby) # {}
        IN
        /\ t.pc = "start_defer"
        /\ IF ~guild.vcs \/ moving
           THEN /\ tasks' = Resume(t, [t EXCEPT !.pc = "start_moves",
                                                 !.players = all_players,
                                                 !.lobby = lobby])
                /\ guild' = [guild EXCEPT !.vcs = TRUE]
                /\ UNCHANGED views
           ELSE /\ views' = [views EXCEPT ![v] = lobby_started(@)]
                /\ tasks' = Resume(t, [t EXCEPT !.pc = "start_edit",
                                                 !.payload = lobby_started(views[v]).children])
                /\ UNCHANGED guild
        /\ last' = NoCall
        /\ UNCHANGED <<files, cache, now, nUpdates, current_match,
                       current_observers, bot_settings, audit>>
        /\ BotFrame

\* start_lobby, lines 143-172: the players are in the team channels; the
\* observers sitting in the lobby follow them; the view is updated.
StartMoved ==
    \E t \in Suspended :
        LET v == t.view
            g1 == move_to(guild, t.players, TeamVC)
            observers_in_lobby == ObserversIn(g1, t.lobby)
        IN
        /\ t.pc = "start_moves"
        /\ guild' = move_to(g1, observers_in_lobby, TeamVC)
        /\ views' = [views EXCEPT ![v] = lobby_started(@)]
        /\ tasks' = Resume(t, [t EXCEPT !.pc = "start_edit",
                                         !.players = {},
                                         !.lobby = None,
                                         !.payload = lobby_started(views[v]).children])
        /\ last' = NoCall
        /\ UNCHANGED <<files, cache, now, nUpdates, current_match,
                       current_observers, bot_settings, audit>>
        /\ BotFrame

\* start_lobby, lines 172-176: the edit lands.
StartEdited ==
    \E t \in Suspended :
        /\ t.pc = "start_edit"
        /\ views' = [views EXCEPT ![t.view].message = t.payload]
        /\ tasks' = End(t)
        /\ last' = NoCall
        /\ UNCHANGED <<files, cache, now, nUpdates, current_match,
                       current_observers, bot_settings, guild, audit>>
        /\ BotFrame

\* ---- the match and test commands, _run_match_lobby

\* A check that never finds a match in progress.
match_never_in_progress(cm) == FALSE

\* match line 909, test line 993: if current_match["active"].
match_in_progress(cm) == cm.active

\* random.shuffle(players): two of the permutations it can produce, the
\* list as it is and the list reversed.
Reverse(s) == [i \in 1..Len(s) |-> s[Len(s) + 1 - i]]
Shuffles(players) == {players, Reverse(players)}

\* A split that gives team_1 the extra player of an odd count.
TeamsCeil(players) ==
    LET mid == (Len(players) + 1) \div 2
    IN [team_1 |-> SubSeq(players, 1, mid),
        team_2 |-> SubSeq(players, mid + 1, Len(players))]

\* _run_match_lobby, lines 834-836: mid = len(players) // 2,
\* team_1 = players[:mid], team_2 = players[mid:].
Teams(players) ==
    LET mid == Len(players) \div 2
    IN [team_1 |-> SubSeq(players, 1, mid),
        team_2 |-> SubSeq(players, mid + 1, Len(players))]

\* Probabilities are integers in units of 1/100000: 0.5 and 1.0.
Half == 50000
One == 100000
Abs(x) == IF x >= 0 THEN x ELSE -x

RECURSIVE SumMu(_)
SumMu(ratings) ==
    IF ratings = << >> THEN 0 ELSE Head(ratings).mu + SumMu(Tail(ratings))

\* model.predict_win([t1_ratings, t2_ratings])[0] of the external openskill
\* library: the probability that team 1 wins. For two teams the library
\* applies the normal distribution function to the difference of the teams'
\* summed means, scaled by a term that is the same for every split of the
\* same players; here the probability rises by one unit with every unit of
\* that difference and stays strictly between 0 and 1.
predict_win(t1_ratings, t2_ratings) ==
    LET p == Half + (SumMu(t1_ratings) - SumMu(t2_ratings))
    IN IF p < 1 THEN 1 ELSE IF p > One - 1 THEN One - 1 ELSE p

\* itertools.combinations(players, r): the r-element subsequences of
\* players, in lexicographic order of their positions.
RECURSIVE combinations(_, _)
combinations(players, r) ==
    IF r = 0 THEN << << >> >>
    ELSE IF Len(players) < r THEN << >>
    ELSE LET with == combinations(Tail(players), r - 1)
         IN [i \in 1..Len(with) |-> << Head(players) >> \o with[i]]
              \o combinations(Tail(players), r)

\* A comparison that also replaces the running best by an equally good split.
closer_or_equal(diff, best_diff) == diff <= best_diff

\* line 823: if diff < best_diff
closer(diff, best_diff) == diff < best_diff

\* [get_player_rating(p.id, data_file=data_file_for_match) for p in team]
ratings_of(fs, c, team, data_file) ==
    [i \in 1..Len(team) |-> get_player_rating(fs, c, team[i], data_file).rating]

\* _run_match_lobby, lines 809-827: the loop over the combinations from the
\* i-th on, `best` being best_diff, best_t1, best_t2 and best_prob so far.
RECURSIVE best_split(_, _, _, _, _, _, _)
best_split(fs, c, data_file, players, combos, i, best) ==
    IF i > Len(combos) THEN best
    ELSE LET t1 == combos[i]
             t2 == SelectSeq(players, LAMBDA p : p \notin Range(t1))
             prob == predict_win(ratings_of(fs, c, t1, data_file),
                                 ratings_of(fs, c, t2, data_file))
             diff == Abs(prob - Half)
         IN best_split(fs, c, data_file, players, combos, i + 1,
                       IF closer(diff, best.diff)
                       THEN [diff |-> diff, team_1 |-> t1, team_2 |-> t2,
                             prob |-> prob]
                       ELSE best)

\* _run_match_lobby, lines 802-830: the balanced teams.
balanced_teams(fs, c, data_file, players) ==
    LET team_size == Len(players) \div 2
    IN best_split(fs, c, data_file, players,
                  combinations(players, team_size), 1,
                  [diff |-> One, team_1 |-> << >>, team_2 |-> << >>,
                   prob |-> Half])

\* _run_match_lobby, lines 800-889: the ratings are read (which loads the
\* cache of the live database), current_match is set, the MatchView is
\* created and sent with the embed.
run_match_lobby(players, lobby_channel, test_mode, balanced) ==
    LET data_file_for_match == IF test_mode THEN TEST_DATA_FILE ELSE None IN
    /\ \E shuffled \in Shuffles(players) :
          LET t == IF balanced
                   THEN balanced_teams(files, cache, data_file_for_match, players)
                   ELSE Teams(shuffled)
          IN current_match' = [active |-> TRUE,
                               team_1 |-> t.team_1,
                               team_2 |-> t.team_2,
                               lobby_channel |-> lobby_channel,
                               test_mode |-> test_mode]
    /\ cache' = load_data(files, cache, data_file_for_match).cache
    /\ views' = Append(views, NewView)
    /\ audit' = Append(audit, [NoAudit EXCEPT !.test = test_mode, !.at = now])

\* What a match or test command did at its check, as `last` records it.
Started(op, ret) == [NoCall EXCEPT !.op = op, !.ret = ret]
\* The same for an accepted command: the players and the balanced option it
\* passed to _run_match_lobby.
Accepted(op, players, balanced) ==
    [NoCall EXCEPT !.op = op, !.ret = "accepted", !.players = players,
                   !.balanced = balanced]

\* /match, line 900, and /test, line 991: await interaction.response.defer().
Command ==
    \E u \in Callers, kind \in {"match", "test"}, balanced \in BOOLEAN :
        /\ Room
        /\ Len(views) + Starting < MaxMatches
        /\ balanced => kind = "match"
        /\ tasks' = Suspend([NoTask EXCEPT !.kind = kind,
                                           !.pc = "defer",
                                           !.user = u,
                                           !.balanced = balanced])
        /\ last' = NoCall
        /\ UNCHANGED <<files, cache, now, nUpdates, current_match,
                       current_observers, bot_settings, views, guild, audit>>
        /\ BotFrame

\* A filter that lets observers play.
eligible_anyway(member, observers) == TRUE

\* match, line 925: not member.bot and member.id not in current_observers
\* (the guild of the model has no bots).
eligible(member, observers) == member \notin observers

\* match, lines 907-936, with current_time read at line 903.
match_from_check(t, current_time) ==
    LET u == t.user
        lobby_channel == guild.voice[u]
        players == SeqOf({m \in Members : guild.voice[m] = lobby_channel
                                             /\ eligible(m, current_observers)})
    IN
    /\ bot_settings' = [bot_settings EXCEPT !.last_lobby_time = current_time]
    /\ tasks' = End(t)
    /\ IF match_in_progress(current_match)
       THEN /\ last' = Started("match", "rejected")
            /\ UNCHANGED <<cache, current_match, views, audit>>
       ELSE IF lobby_channel = NoVoice
       THEN /\ last' = Started("match", "no_voice")
            /\ UNCHANGED <<cache, current_match, views, audit>>
       ELSE IF Len(players) < 2
       THEN /\ last' = Started("match", "too_few")
            /\ UNCHANGED <<cache, current_match, views, audit>>
       ELSE /\ last' = Accepted("match", players, t.balanced)
            /\ run_match_lobby(players, lobby_channel, FALSE, t.balanced)
    /\ UNCHANGED <<files, now, nUpdates, guild>>
    /\ BotFrame

\* match, lines 903-905: the observers are cleared when the last lobby is
\* over an hour old; clear_all_observers awaits the removal of the roles
\* when there were observers.
MatchDeferred ==
    \E t \in Suspended :
        LET current_time == now
            stale == current_time - bot_settings.last_lobby_time > HourInTicks
        IN
        /\ t.kind = "match"
        /\ t.pc = "defer"
        /\ IF stale /\ current_observers # {}
           THEN /\ current_observers' = {}
                /\ tasks' = Resume(t, [t EXCEPT !.pc = "clear",
                                                 !.time = current_time])
                /\ last' = NoCall
                /\ UNCHANGED <<files, cache, now, nUpdates, current_match,
                               bot_settings, views, guild, audit>>
                /\ BotFrame
           ELSE /\ UNCHANGED current_observers
                /\ match_from_check(t, current_time)

\* match, lines 905-936: the roles are removed.
MatchCleared ==
    \E t \in Suspended :
        /\ t.kind = "match"
        /\ t.pc = "clear"
        /\ UNCHANGED current_observers
        /\ match_from_check(t, t.time)

\* test, lines 993-1021.
TestDeferred ==
    \E t \in Suspended :
        LET u == t.user
            lobby_channel == guild.voice[u]
            players == (IF u \notin current_observers THEN << u >>
                        ELSE << 9004 >>) \o << 9001, 9002, 9003 >>
        IN
        /\ t.kind = "test"
        /\ t.pc = "defer"
        /\ tasks' = End(t)
        /\ IF match_in_progress(current_match)
           THEN /\ last' = Started("test", "rejected")
                /\ UNCHANGED <<cache, current_match, views, audit>>
           ELSE IF lobby_channel = NoVoice
           THEN /\ last' = Started("test", "no_voice")
                /\ UNCHANGED <<cache, current_match, views, audit>>
           ELSE /\ last' = Accepted("test", players, FALSE)
                /\ run_match_lobby(players, lobby_channel, TRUE, FALSE)
        /\ UNCHANGED <<files, now, nUpdates, current_observers, bot_settings,
                       guild>>
        /\ BotFrame

\* ---- /obs

\* obs, lines 956-983: toggle the member in current_observers.
Obs ==
    \E u \in Callers :
        /\ current_observers' = IF u \in current_observers
                                THEN current_observers \ {u}
                                ELSE current_observers \cup {u}
        /\ last' = NoCall
        /\ UNCHANGED <<files, cache, now, nUpdates, current_match,
                       bot_settings, views, tasks, guild, audit>>
        /\ BotFrame

\* ---- the bot

\* The process starts on a fresh installation: no data file yet.
Init == StoreInit /\ env = None /\ ~exists(files, DATA_FILE)

\* The match lifecycle while nobody observes and within one reading of the
\* clock: the commands that start a match and the buttons of its MatchView.
Next ==
    \/ Command
    \/ MatchDeferred
    \/ TestDeferred
    \/ PressStart
    \/ StartDeferred
    \/ StartMoved
    \/ StartEdited
    \/ PressWin
    \/ WinDeferred
    \/ WinEdited
    \/ WinMoved
    \/ WinDeleted
    \/ WinAnnounced
    \/ WinReplayed
    \/ PressCancel
    \/ CancelDeferred
    \/ CancelMoved
    \/ CancelDeleted
    \/ CancelEdited

Spec == Init /\ [][Next]_vars

\* A handler of this kind is suspended at the await pc.
SuspendedAt(kind, pc) == \E t \in Suspended : t.kind = kind /\ t.pc = pc

\* The resumptions of the suspended handlers. The event loop runs every
\* handler whose awaited platform call has returned, and every platform call
\* returns: each resumption is taken if it stays possible. Commands and
\* button presses are the users' and are under no obligation.
\* For the two resumptions that rate players or balance teams the weak
\* fairness condition is written out, WF_vars(A) being
\* []<>~ENABLED <<A>>_vars \/ []<><<A>>_vars: the resumption is enabled exactly
\* when a handler is suspended at its await.
Fairness ==
    /\ []<>(~SuspendedAt("match", "defer")) \/ []<><<MatchDeferred>>_vars
    /\ []<>(~SuspendedAt("win", "win_edit")) \/ []<><<WinEdited>>_vars
    /\ WF_vars(TestDeferred)
    /\ WF_vars(StartDeferred) /\ WF_vars(StartMoved) /\ WF_vars(StartEdited)
    /\ WF_vars(WinDeferred) /\ WF_vars(WinMoved)
    /\ WF_vars(WinDeleted) /\ WF_vars(WinAnnounced) /\ WF_vars(WinReplayed)
    /\ WF_vars(CancelDeferred) /\ WF_vars(CancelMoved)
    /\ WF_vars(CancelDeleted) /\ WF_vars(CancelEdited)

SpecFair == Init /\ [][Next]_vars /\ Fairness

\* The lobby: matches started, with /obs and the clock, and given up with
\* Cancel Match; no match is reported won.
LobbyNext ==
    \/ Tick
    \/ Obs
    \/ Command
    \/ MatchDeferred
    \/ MatchCleared
    \/ TestDeferred
    \/ PressStart
    \/ StartDeferred
    \/ StartMoved
    \/ StartEdited
    \/ PressCancel
    \/ CancelDeferred
    \/ CancelMoved
    \/ CancelDeleted
    \/ CancelEdited

SpecLobby == Init /\ [][LobbyNext]_vars

\* ---- _run_match_lobby on its own

\* Earlier matches among the players 1..MaxPlayers, as (winners, losers).
PastMatchups == { << <<1>>, <<2>> >>, << <<2>>, <<1>> >>, << <<3>>, <<4>> >>,
                  << <<4>>, <<1>> >>, << <<1, 2>>, <<3, 4>> >>,
                  << <<2, 3>>, <<1, 4>> >> }

\* The live database and its backup after no, one or two earlier matches:
\* the first match finds no file to back up, the second backs up the result
\* of the first.
PastFiles ==
    LET after1 == {Rated(EmptyDB, m[1], m[2], 0) : m \in PastMatchups}
    IN {[db |-> EmptyDB, backup |-> EmptyDB]}
         \cup {[db |-> d, backup |-> EmptyDB] : d \in after1}
         \cup {[db |-> Rated(d, m[1], m[2], 0), backup |-> d] :
                  d \in after1, m \in PastMatchups}

TeamsInit ==
    /\ env = None
    /\ \E past \in PastFiles :
          files = [p \in Paths |->
                     IF p = DATA_FILE /\ past.db # EmptyDB THEN FileOf(past.db)
                     ELSE IF p = BACKUP_DATA_FILE /\ past.backup # EmptyDB
                     THEN FileOf(past.backup)
                     ELSE NoFile]
    /\ cache = NoCache
    /\ now = 0
    /\ nUpdates = 0
    /\ nCrashes = 0
    /\ last = NoCall
    /\ snap = NoSnap
    /\ BotInit

\* _run_match_lobby(interaction, players, lobby_channel, test_mode=False,
\* balanced) as match calls it, for the first n players of a voice channel.
RunMatchLobby ==
    \E n \in 2..MaxPlayers, balanced \in BOOLEAN :
        LET players == [i \in 1..n |-> i] IN
        /\ ~match_in_progress(current_match)
        /\ run_match_lobby(players, Lobby, FALSE, balanced)
        /\ last' = Accepted("run_match_lobby", players, balanced)
        /\ UNCHANGED <<files, now, nUpdates, current_observers, bot_settings,
                       tasks, guild>>
        /\ BotFrame

TeamsNext == RunMatchLobby

SpecTeams == TeamsInit /\ [][TeamsNext]_vars

\* ---- the candidates of a match

\* The bot is idle and has posted no MatchView yet. Members have joined and
\* left the lobby voice channel and toggled /obs as they liked; the last
\* /match, if there was one, was turned down (nobody in voice, or too few
\* players) less than an hour ago.
CandidatesInit ==
    /\ env = None
    /\ files = [p \in Paths |-> NoFile]
    /\ cache = NoCache
    /\ now = 0
    /\ nUpdates = 0
    /\ nCrashes = 0
    /\ last = NoCall
    /\ snap = NoSnap
    /\ current_match = Idle
    /\ views = << >>
    /\ tasks = EmptyBag
    /\ audit = << >>
    /\ \E observers \in SUBSET Members,
          voice \in [Members -> {Lobby, NoVoice}],
          last_lobby_time \in {Epoch, 0} :
          /\ current_observers = observers
          /\ guild = [vcs |-> FALSE, voice |-> voice]
          /\ bot_settings = [auto_replay |-> TRUE,
                             last_lobby_time |-> last_lobby_time]

CandidatesNext ==
    \/ Obs
    \/ Command
    \/ MatchDeferred
    \/ MatchCleared
    \/ TestDeferred

SpecCandidates == CandidatesInit /\ [][CandidatesNext]_vars

\* ---- the checks of the replay flow (handle_victory_slash, lines 660-735)

\* config.AUTO_REPLAY_MAX_AGE_SECONDS = 15 * 60
AUTO_REPLAY_MAX_AGE_SECONDS == 15 * 60
\* config.DISCORD_ATTACHMENT_LIMIT_MB, and the same limit in bytes
\* (file_size_mb = os.path.getsize(latest_file) / (1024 * 1024)).
DISCORD_ATTACHMENT_LIMIT_MB == 25
LimitBytes == DISCORD_ATTACHMENT_LIMIT_MB * 1024 * 1024

\* time.time() when the replay flow of SpecReplay reads the clock, in seconds.
ReplayClock == 1000

\* line 679 with >= for >
too_old_at_limit(file_age_seconds, file_max_age_seconds) ==
    file_age_seconds >= file_max_age_seconds

\* line 679: file_age_seconds > file_max_age_seconds
too_old(file_age_seconds, file_max_age_seconds) ==
    file_age_seconds > file_max_age_seconds

\* max(list_of_files, key=os.path.getmtime): a file no other file is newer
\* than; among files of equal mtime, the first in glob's order.
Newest(list_of_files) ==
    {f \in list_of_files : \A g \in list_of_files : g.mtime <= f.mtime}

\* Lines 660-735 for the replay folder e, with latest_file the file max()
\* picked and http_ok whether Discord takes the upload: how the flow ends.
replay_flow(e, latest_file, http_ok) ==
    IF ~e.folder_set \/ ~e.folder_exists THEN "folder_missing"
    ELSE IF e.list_of_files = {} THEN "folder_empty"
    ELSE IF too_old(ReplayClock - latest_file.mtime, AUTO_REPLAY_MAX_AGE_SECONDS)
    THEN "too_old"
    ELSE IF latest_file.size > LimitBytes THEN "too_large"
    ELSE IF http_ok THEN "uploaded"
    ELSE "upload_failed"

\* The files a replay folder of SpecReplay may hold: of age one second under,
\* exactly at, and one second over the limit, of a size at or one byte over
\* the attachment limit.
ReplayFiles ==
    [mtime : {ReplayClock - AUTO_REPLAY_MAX_AGE_SECONDS + 1,
              ReplayClock - AUTO_REPLAY_MAX_AGE_SECONDS,
              ReplayClock - AUTO_REPLAY_MAX_AGE_SECONDS - 1},
     size : {LimitBytes, LimitBytes + 1}]

\* The replay folders: REPLAY_FOLDER set or empty, the directory there or
\* not, and the files in it.
ReplayFolders ==
    [folder_set : BOOLEAN, folder_exists : BOOLEAN,
     list_of_files : SUBSET ReplayFiles]

ReplayInit ==
    /\ env = None
    /\ files = [p \in Paths |-> NoFile]
    /\ cache = NoCache
    /\ now = 0
    /\ nUpdates = 0
    /\ nCrashes = 0
    /\ last = NoCall
    /\ snap \in ReplayFolders
    /\ BotInit

\* The replay flow from its status message on, over the folder in snap.
ReplayFlow ==
    \E http_ok \in BOOLEAN,
       latest_file \in IF snap.list_of_files = {} THEN {NoCall.latest_file}
                       ELSE Newest(snap.list_of_files) :
        /\ last' = [NoCall EXCEPT !.op = "replay",
                                  !.ret = replay_flow(snap, latest_file, http_ok),
                                  !.latest_file = latest_file]
        /\ UNCHANGED <<files, cache, now, nUpdates, snap, nCrashes, env>>
        /\ UNCHANGED botVars

ReplayNext == ReplayFlow

SpecReplay == ReplayInit /\ [][ReplayNext]_vars

\* ---- the session grouping of graphall (lines 1181-1204)

\* config.SESSION_GAP_SECONDS = 8 * 60 * 60
SESSION_GAP_SECONDS == 8 * 60 * 60

\* line 1192 with >= for >
new_session_at_gap(timestamp, current_time) ==
    timestamp - current_time >= SESSION_GAP_SECONDS

\* line 1192: entry["timestamp"] - current_time > SESSION_GAP_SECONDS
new_session(timestamp, current_time) ==
    timestamp - current_time > SESSION_GAP_SECONDS

\* The loop of lines 1191-1196 from entry i on.
RECURSIVE group_sessions(_, _, _, _, _)
group_sessions(history, i, current_time, current_mmr, session_data) ==
    IF i > Len(history)
    THEN Append(session_data, [time |-> current_time, mmr |-> current_mmr])
    ELSE group_sessions(history, i + 1, history[i].timestamp, history[i].mmr,
             IF new_session(history[i].timestamp, current_time)
             THEN Append(session_data,
                         [time |-> current_time, mmr |-> current_mmr])
             ELSE session_data)

\* session_data of lines 1187-1198 for one player's non-empty history.
session_points(history) ==
    group_sessions(history, 2, history[1].timestamp, history[1].mmr, << >>)

\* The time between one match of a history and the next: a second, the
\* session gap, the session gap and a second.
Gaps == {1, SESSION_GAP_SECONDS, SESSION_GAP_SECONDS + 1}
Mmrs == {1000, 1010}

\* The histories of n entries that begin at `start`.
RECURSIVE HistoriesFrom(_, _)
HistoriesFrom(start, n) ==
    IF n = 0 THEN {<< >>}
    ELSE UNION {{<< [timestamp |-> start, mmr |-> m] >> \o rest :
                    rest \in UNION {HistoriesFrom(start + g, n - 1) : g \in Gaps}}
                : m \in Mmrs}

Histories == UNION {HistoriesFrom(0, n) : n \in 1..MaxHistory}

SessionsInit ==
    /\ env = None
    /\ files = [p \in Paths |-> NoFile]
    /\ cache = NoCache
    /\ now = 0
    /\ nUpdates = 0
    /\ nCrashes = 0
    /\ last = NoCall
    /\ snap \in Histories
    /\ BotInit

\* graphall groups the history in snap.
GraphAll ==
    /\ last' = [NoCall EXCEPT !.op = "graphall",
                              !.session_data = session_points(snap)]
    /\ UNCHANGED <<files, cache, now, nUpdates, snap, nCrashes, env>>
    /\ UNCHANGED botVars

SessionsNext == GraphAll

SpecSessions == SessionsInit /\ [][SessionsNext]_vars

\* ---- the history and stats commands (lines 1028-1062, 1265-1323)

\* line 1317: the rows a recap displays
DisplayLimit == 15

\* What a command that has not been run has replied.
NoReply == [ret |-> "none"]

\* line 1286 with > for >=
in_session_after(timestamp, cutoff_time) == timestamp > cutoff_time

\* line 1286: match["timestamp"] >= cutoff_time
in_session(timestamp, cutoff_time) == timestamp >= cutoff_time

\* Lines 1287-1306: the row of entry i of a history (the emoji and markup
\* left out): the result, the signed MMR change from the entry before, or
\* from the default rating's ordinal for the first entry, the MMR reached
\* and the time.
row(history_list, i) ==
    LET current_mmr == history_list[i].mmr
        prev_mmr == IF i > 1 THEN history_list[i - 1].mmr
                    ELSE int(ordinal(DefaultRating))
    IN [result |-> IF history_list[i].result = "Win" THEN "WIN" ELSE "LOSS",
        diff |-> current_mmr - prev_mmr,
        total |-> current_mmr,
        timestamp |-> history_list[i].timestamp]

\* Lines 1285-1306: the rows of the entries in the session, in history order.
RECURSIVE recent_rows(_, _, _)
recent_rows(history_list, cutoff_time, i) ==
    IF i > Len(history_list) THEN << >>
    ELSE (IF in_session(history_list[i].timestamp, cutoff_time)
          THEN << row(history_list, i) >> ELSE << >>)
         \o recent_rows(history_list, cutoff_time, i + 1)

\* list.reverse()
reverse(l) == [i \in 1..Len(l) |-> l[Len(l) + 1 - i]]

\* history for a player with the non-empty history history_list, run at
\* current_time = int(time.time()): lines 1280-1334.
history(history_list, current_time) ==
    LET cutoff_time == current_time - SESSION_GAP_SECONDS
        recent_matches == reverse(recent_rows(history_list, cutoff_time, 1))
    IN IF recent_matches = << >>
       THEN [ret |-> "no matches in the current session"]
       ELSE IF Len(recent_matches) > DisplayLimit
       THEN [ret |-> "recap",
             recent_matches |-> recent_matches,
             display |-> SubSeq(recent_matches, 1, DisplayLimit),
             older |-> Len(recent_matches) - DisplayLimit]
       ELSE [ret |-> "recap",
             recent_matches |-> recent_matches,
             display |-> recent_matches,
             older |-> 0]

\* sum(1 for match in history if match["result"] == "Win")
RECURSIVE count_wins(_)
count_wins(h) ==
    IF h = << >> THEN 0
    ELSE (IF h[1].result = "Win" THEN 1 ELSE 0) + count_wins(Tail(h))

\* stats for a player with the non-empty history h: lines 1043-1062 (the
\* win rate left out).
stats(h) ==
    LET wins == count_wins(h) IN
    [ret |-> "stats",
     current_mmr |-> h[Len(h)].mmr,
     wins |-> wins,
     losses |-> Len(h) - wins,
     total |-> Len(h)]

\* A history of Histories with its results: the rating went up on a win.
Played(h) ==
    [i \in DOMAIN h |->
        [timestamp |-> h[i].timestamp, mmr |-> h[i].mmr,
         result |-> IF h[i].mmr = 1010 THEN "Win" ELSE "Loss"]]

\* One session of one match more than a recap displays, a second apart.
LongSession ==
    [i \in 1..(DisplayLimit + 1) |->
        [timestamp |-> i, mmr |-> 1000 + i, result |-> "Win"]]

\* A player's history and the time the commands are run at: the session gap
\* less a second, the session gap, or the session gap and a second after one
\* of the player's matches, and not before the last of them.
Players ==
    UNION {{[history_list |-> h, current_time |-> h[i].timestamp + g] :
               i \in DOMAIN h, g \in {SESSION_GAP_SECONDS - 1} \cup Gaps}
           : h \in {Played(x) : x \in Histories} \cup {LongSession}}

HistoryInit ==
    /\ env = None
    /\ files = [p \in Paths |-> NoFile]
    /\ cache = NoCache
    /\ now = 0
    /\ nUpdates = 0
    /\ nCrashes = 0
    /\ last = [NoCall EXCEPT !.reply = [history |-> NoReply, stats |-> NoReply]]
    /\ snap \in {pl \in Players :
                    pl.current_time
                      >= pl.history_list[Len(pl.history_list)].timestamp}
    /\ BotInit

\* The history command is run for the player in snap.
History ==
    /\ last' = [last EXCEPT !.op = "history",
                            !.reply.history
                               = history(snap.history_list, snap.current_time)]
    /\ UNCHANGED <<files, cache, now, nUpdates, snap, nCrashes, env>>
    /\ UNCHANGED botVars

\* The stats command is run for the player in snap.
Stats ==
    /\ last' = [last EXCEPT !.op = "stats",
                            !.reply.stats = stats(snap.history_list)]
    /\ UNCHANGED <<files, cache, now, nUpdates, snap, nCrashes, env>>
    /\ UNCHANGED botVars

HistoryNext == History \/ Stats

SpecHistory == HistoryInit /\ [][HistoryNext]_vars

\* ---- the session views: generate_session_history_text (main.py 290-362)
\* ---- and generate_session_graph (main.py 365-450)

\* Lines 307 and 322 (391 and 410 in the chart) with > for >=
in_window_after(timestamp, cutoff_time) == timestamp > cutoff_time

\* Lines 307 and 322 (391 and 410 in the chart):
\* match["timestamp"] >= cutoff_time
in_window(timestamp, cutoff_time) == timestamp >= cutoff_time

\* Lines 301-311 (385-395): sorted(list({...})), the timestamps of the
\* entries in the window, each once, in ascending order.
lobby_matches(data, cutoff_time) ==
    SeqOf(UNION {{data[p].history[i].timestamp :
                     i \in {j \in DOMAIN data[p].history :
                               in_window(data[p].history[j].timestamp,
                                         cutoff_time)}}
                 : p \in DOMAIN data})

\* Line 322 (410): any(m["timestamp"] >= cutoff_time for m in history)
played_session(hist, cutoff_time) ==
    \E i \in DOMAIN hist : in_window(hist[i].timestamp, cutoff_time)

\* Lines 333-335 (427-429): next((m for m in history
\* if m["timestamp"] == lobby_ts), None), as the index of the first such
\* entry, 0 for None.
played_this_game(hist, lobby_ts) ==
    LET at == {i \in DOMAIN hist : hist[i].timestamp = lobby_ts}
    IN IF at = {} THEN 0 ELSE CHOOSE i \in at : \A j \in at : i <= j

\* Lines 331-343: one glyph per session timestamp.
match_results(hist, lobby) ==
    [k \in 1..Len(lobby) |->
        LET i == played_this_game(hist, lobby[k]) IN
        IF i # 0
        THEN (IF hist[i].result = "Win" THEN "win" ELSE "loss")
        ELSE "did_not_play"]

\* generate_session_history_text at time.time() = current_time: None, or
\* the results of every player who played in the window (the names and the
\* joining of the two columns left out).
generate_session_history_text(data, current_time) ==
    LET cutoff_time == current_time - SESSION_GAP_SECONDS
        lobby == lobby_matches(data, cutoff_time)
        shown == {p \in DOMAIN data : played_session(data[p].history, cutoff_time)}
    IN IF lobby = << >> THEN [ret |-> "None"]
       ELSE IF shown = {} THEN [ret |-> "None"]
       ELSE [ret |-> "text",
             results |-> [p \in shown |-> match_results(data[p].history, lobby)]]

\* Lines 414-421 with the first of past_matches for the last.
baseline_mmr_first(hist, cutoff_time) ==
    LET past_matches == SelectSeq(hist, LAMBDA m : m.timestamp < cutoff_time)
    IN IF past_matches # << >>
       THEN past_matches[1].mmr
       ELSE int(ordinal(rating(CUSTOM_MU * Unit, CUSTOM_SIGMA)))

\* Lines 414-421: the mmr of the last entry before the window, or the
\* ordinal of the default rating.
baseline_mmr(hist, cutoff_time) ==
    LET past_matches == SelectSeq(hist, LAMBDA m : m.timestamp < cutoff_time)
    IN IF past_matches # << >>
       THEN past_matches[Len(past_matches)].mmr
       ELSE int(ordinal(rating(CUSTOM_MU * Unit, CUSTOM_SIGMA)))

\* Lines 423-436: y_plot after the first k session timestamps; x_plot is
\* 0..k.
RECURSIVE y_plot(_, _, _, _)
y_plot(hist, lobby, cutoff_time, k) ==
    IF k = 0 THEN << baseline_mmr(hist, cutoff_time) >>
    ELSE LET before == y_plot(hist, lobby, cutoff_time, k - 1)
             i == played_this_game(hist, lobby[k])
             current_mmr == IF i # 0 THEN hist[i].mmr
                            ELSE before[Len(before)]
         IN Append(before, current_mmr)

\* generate_session_graph at time.time() = current_time: None, or the line
\* plotted for every player who played in the window (the drawing left
\* out).
generate_session_graph(data, current_time) ==
    LET cutoff_time == current_time - SESSION_GAP_SECONDS
        lobby == lobby_matches(data, cutoff_time)
        shown == {p \in DOMAIN data : played_session(data[p].history, cutoff_time)}
    IN IF lobby = << >> THEN [ret |-> "None"]
       ELSE IF shown = {} THEN [ret |-> "None"]
       ELSE [ret |-> "file",
             lines |-> [p \in shown |->
                          y_plot(data[p].history, lobby, cutoff_time, Len(lobby))]]

\* The seconds between two rating updates: the same second, the next, and
\* around the session gap.
MatchGaps == {0} \cup Gaps

\* The databases update_ratings leaves after n more matches, the first of
\* them at `start`.
RECURSIVE DatabasesFrom(_, _, _)
DatabasesFrom(data, start, n) ==
    IF n = 0 THEN {data}
    ELSE UNION {UNION {DatabasesFrom(Rated(data, m[1], m[2], start), start + g, n - 1)
                       : g \in MatchGaps}
                : m \in Matchups}

\* The time of the last match of a database.
LastMatch(data) ==
    LET ts == {data[p].history[Len(data[p].history)].timestamp : p \in DOMAIN data}
    IN CHOOSE t \in ts : \A u \in ts : t >= u

\* A database after one to MaxHistory matches and the time the views are
\* generated at: at the last match, or around the session gap after it.
Ladders ==
    UNION {{[data |-> d, current_time |-> LastMatch(d) + g] :
               g \in {0, SESSION_GAP_SECONDS - 1} \cup Gaps}
           : d \in UNION {DatabasesFrom(EmptyDB, 0, n) : n \in 1..MaxHistory}}

SessionViewInit ==
    /\ env = None
    /\ files = [p \in Paths |-> NoFile]
    /\ cache = NoCache
    /\ now = 0
    /\ nUpdates = 0
    /\ nCrashes = 0
    /\ last = [NoCall EXCEPT !.reply = [text |-> NoReply, graph |-> NoReply]]
    /\ snap \in Ladders
    /\ BotInit

\* The text view is generated for the database in snap.
SessionText ==
    /\ last' = [last EXCEPT !.op = "session_text",
                            !.reply.text
                               = generate_session_history_text(snap.data,
                                                               snap.current_time)]
    /\ UNCHANGED <<files, cache, now, nUpdates, snap, nCrashes, env>>
    /\ UNCHANGED botVars

\* The chart view is generated for the database in snap.
SessionGraph ==
    /\ last' = [last EXCEPT !.op = "session_graph",
                            !.reply.graph
                               = generate_session_graph(snap.data,
                                                        snap.current_time)]
    /\ UNCHANGED <<files, cache, now, nUpdates, snap, nCrashes, env>>
    /\ UNCHANGED botVars

SessionViewNext == SessionText \/ SessionGraph

SpecSessionView == SessionViewInit /\ [][SessionViewNext]_vars

\* ------------------------------------------------------------------ claims

\* The database a read of the behaviour's environment sees.
Seen(fs, c) == load_data(fs, c, env)

\* C5: after update_ratings(winners, losers) on disjoint non-empty rosters,
\* every participant's history is its previous history plus exactly one entry,
\* Win for winners and Loss for losers, all with the call's one timestamp, and
\* the record of every other player is unchanged.
C5_UpdateAppendsOneEntry ==
    [][ (last'.op = "update_ratings" /\ ~last'.crashed /\ last'.ret = "None") =>
          LET before == Seen(files, cache).data
              after == Seen(files', cache').data
              part == Range(last'.winners) \cup Range(last'.losers)
          IN /\ Seen(files', cache').ok
             /\ DOMAIN after = DOMAIN before \cup part
             /\ \A p \in DOMAIN before \ part : after[p] = before[p]
             /\ \A p \in part :
                   LET h0 == IF p \in DOMAIN before THEN before[p].history ELSE << >>
                       h1 == after[p].history
                   IN /\ Len(h1) = Len(h0) + 1
                      /\ SubSeq(h1, 1, Len(h0)) = h0
                      /\ h1[Len(h1)].result =
                            (IF p \in Range(last'.winners) THEN "Win" ELSE "Loss")
                      /\ h1[Len(h1)].timestamp = last'.time
      ]_vars

\* C5 witness: an update has returned; a participant had a history before
\* it, and a player who did not take part has a record.
C5_Witness ==
    /\ last.op = "update_ratings" /\ ~last.crashed /\ last.ret = "None"
    /\ LET d == Seen(files, cache).data
           part == Range(last.winners) \cup Range(last.losers)
       IN /\ \E p \in part : Len(d[p].history) = 2
          /\ \E q \in DOMAIN d : q \notin part
          /\ last.time > 0

\* C6 as stated: backup, then any change of the live database, then the
\* first restore: the next read of the live database sees the database as
\* it was at the backup, whether or not a live file existed then.
C6_RestoreYieldsBackedUp ==
    (env = None /\ last.op = "restore_backup" /\ snap.valid /\ snap.restores = 1)
        => (Seen(files, cache).ok /\ Seen(files, cache).data = snap.db)

\* C6 amended: the same, for a backup taken when the live file exists;
\* then the restore returns True.
C6_RestoreYieldsBackedUpFile ==
    (env = None /\ last.op = "restore_backup" /\ snap.valid /\ snap.restores = 1
        /\ snap.copied)
        => /\ last.ret = "True"
           /\ Seen(files, cache).ok
           /\ Seen(files, cache).data = snap.db

\* C6 witness: a restore has returned after a backup of a database with
\* records and a rating update in between.
C6_Witness ==
    /\ env = None /\ last.op = "restore_backup" /\ last.ret = "True"
    /\ snap.valid /\ snap.restores = 1 /\ snap.copied
    /\ snap.db # EmptyDB
    /\ nUpdates > snap.updates

\* C7: a restore that finds a backup returns True and deletes it; one that
\* finds none returns False and changes neither the files nor the cache; a
\* backup of an existing database leaves the environment's one backup file
\* equal to it, whatever that file held, and writes no other backup file.
C7_SingleLevelUndo ==
    [][ /\ (last'.op = "restore_backup" /\ ~last'.crashed) =>
              IF exists(files, BackupPathOf(env))
              THEN last'.ret = "True" /\ ~exists(files', BackupPathOf(env))
              ELSE last'.ret = "False" /\ files' = files /\ cache' = cache
        /\ (last'.op = "backup_data" /\ ~last'.crashed /\ last'.ret = "None"
                /\ exists(files, PathOf(env))) =>
              /\ files'[BackupPathOf(env)] = files[PathOf(env)]
              /\ \A p \in Paths \ {BackupPathOf(env)} : files'[p] = files[p]
      ]_vars

\* C7 witness: the second restore after one backup has returned False and the
\* database restored by the first is still there.
C7_Witness ==
    /\ last.op = "restore_backup" /\ last.ret = "False"
    /\ snap.valid /\ snap.copied /\ snap.restores = 2
    /\ Seen(files, cache).data = snap.db
    /\ snap.db # EmptyDB

\* C8: a crash of save_data after the temporary file is written and before
\* the rename leaves the target file as it was before the call.
C8_CrashBeforeRenameKeepsTarget ==
    [][ (last'.crashed /\ last'.at = "tmp_written") =>
            files'[PathOf(env)] = files[PathOf(env)]
      ]_vars

\* C8 witness: the process died in the save of a rating update with the new
\* database in the temporary file and the old one, intact, in the target.
C8_Witness ==
    /\ last.op = "update_ratings" /\ last.crashed /\ last.at = "tmp_written"
    /\ exists(files, PathOf(env)) /\ ~files[PathOf(env)].torn
    /\ exists(files, TmpOf(PathOf(env))) /\ ~files[TmpOf(PathOf(env))].torn
    /\ files[TmpOf(PathOf(env))].db # files[PathOf(env)].db

\* C9: whatever call a crash interrupts, each of the four persisted files
\* holds a complete database afterwards, the old one or the new one.
C9_AllWritesAtomic ==
    \A p \in PersistedFiles : ~files[p].torn

\* C10: get_player_rating / get_player_ordinal for an id with no record
\* return the default rating and its ordinal, and a lookup changes no file
\* and no record of the database a read sees.
C10_LookupIsReadOnly ==
    [][ (last'.op = "get_player_rating" /\ last'.ret = "None") =>
          LET before == Seen(files, cache).data IN
          /\ files' = files
          /\ Seen(files', cache').ok
          /\ Seen(files', cache').data = before
          /\ cache'.loaded => cache'.data = before
          /\ last'.uid \notin DOMAIN before =>
                /\ last'.rating = rating(CUSTOM_MU * Unit, CUSTOM_SIGMA)
                /\ get_player_ordinal(files, cache, last'.uid, env)
                       = int(CUSTOM_MU * Unit - 3 * CUSTOM_SIGMA)
      ]_vars

\* C10 witness: a lookup of a player with no record in a database that has
\* records.
C10_Witness ==
    /\ last.op = "get_player_rating" /\ last.ret = "None"
    /\ last.uid \notin DOMAIN Seen(files, cache).data
    /\ Seen(files, cache).data # EmptyDB
    /\ cache.loaded

\* A handler suspended at an await that comes before its check of
\* current_match["active"].
Unchecked(t) == t.pc \in {"defer", "clear", "cancel_defer"}

\* C1: for one match (one MatchView), two "declare winner" triggers, one
\* pressed while the other is in flight, never both pass the check of
\* current_match["active"] and update the ratings twice: one of them is
\* rejected and there is one rating update.
C1_OneRatingUpdate ==
    \A v \in ViewIds : ~(audit[v].twoWins /\ audit[v].rated >= 2)

\* C2: for one match (one MatchView), a win trigger and a cancel trigger, one
\* pressed while the other is in flight, never both take effect: the view's
\* triggers do not both announce "Match cancelled. No MMR was changed." and
\* update the ratings.
C2_WinOrCancel ==
    \A v \in ViewIds :
        ~(audit[v].winCancel /\ audit[v].cancelled /\ audit[v].rated >= 1)

\* C3: no win handler and no cancel handler is suspended at an await before
\* it has checked and cleared current_match["active"].
C3_CheckBeforeFirstAwait ==
    \A t \in Suspended : t.kind \in {"win", "cancel"} => ~Unchecked(t)

Drawn(balanced) == last.op = "run_match_lobby" /\ last.balanced = balanced
InOrder(S) == SelectSeq(last.players, LAMBDA p : p \in S)
Candidates ==
    {S \in SUBSET Range(last.players) :
        Cardinality(S) = Len(last.players) \div 2}
Unevenness(S) ==
    Abs(predict_win(ratings_of(files, cache, InOrder(S), None),
                    ratings_of(files, cache,
                               InOrder(Range(last.players) \ S), None))
          - Half)
Position(p) == CHOOSE i \in 1..Len(last.players) : last.players[i] = p
Before(S, T) ==
    \E p \in S \ T : \A q \in T \ S : Position(p) < Position(q)

\* C11: after a balanced draw from n players, team_1 has floor(n/2) players
\* in the order of the player list, team_2 is the rest, no candidate team is
\* closer to an even match than team_1, and every other candidate exactly as
\* close comes later in the enumeration.
C11_BalancedSplitIsFirstBest ==
    Drawn(TRUE) =>
        LET chosen == Range(current_match.team_1) IN
        /\ Len(current_match.team_1) = Len(last.players) \div 2
        /\ current_match.team_1 = InOrder(chosen)
        /\ current_match.team_2 = InOrder(Range(last.players) \ chosen)
        /\ \A S \in Candidates :
              /\ Unevenness(chosen) <= Unevenness(S)
              /\ (S # chosen /\ Unevenness(S) = Unevenness(chosen))
                    => Before(chosen, S)

\* A balanced draw from four players in which another split is exactly as
\* close as the chosen one and a third is strictly worse.
C11_Witness ==
    /\ Drawn(TRUE)
    /\ Len(last.players) = 4
    /\ Cardinality(Candidates) = 6
    /\ \E S, T \in Candidates :
          /\ S # Range(current_match.team_1)
          /\ Unevenness(S) = Unevenness(Range(current_match.team_1))
          /\ Unevenness(T) > Unevenness(Range(current_match.team_1))
          /\ Unevenness(Range(current_match.team_1)) > 0

\* The two teams partition the players drawn from, team_1 holding
\* floor(n/2) of them.
SplitAtMidpoint ==
    /\ Len(current_match.team_1) = Len(last.players) \div 2
    /\ Len(current_match.team_1) + Len(current_match.team_2) = Len(last.players)
    /\ Range(current_match.team_1) \cup Range(current_match.team_2)
          = Range(last.players)
    /\ Range(current_match.team_1) \cap Range(current_match.team_2) = {}

\* C12 (as stated): after a random draw the teams partition the players at
\* the midpoint len // 2, and on an odd count team_1 has the extra player.
C12_Team1GetsExtra ==
    Drawn(FALSE) =>
        /\ SplitAtMidpoint
        /\ Len(last.players) % 2 = 1
              => Len(current_match.team_1) = Len(current_match.team_2) + 1

\* C12 (amended): after a random draw the teams partition the players at
\* the midpoint len // 2, and on an odd count team_2 has the extra player.
C12_Team2GetsExtra ==
    Drawn(FALSE) =>
        /\ SplitAtMidpoint
        /\ Len(last.players) % 2 = 1
              => Len(current_match.team_2) = Len(current_match.team_1) + 1

\* A random draw from an odd number of players.
C12_Witness ==
    /\ Drawn(FALSE)
    /\ Len(last.players) % 2 = 1
    /\ current_match.active

\* The members sitting in the voice channel of the caller.
InCallersChannel ==
    {m \in Members : \E u \in Callers : guild.voice[m] = guild.voice[u]}

\* C13: when a match or test command is accepted, nobody who is in
\* current_observers at that step is on team_1 or team_2; and a match command
\* that gets as far as counting its players, with fewer than two members of
\* the caller's channel outside current_observers, is turned down for too few
\* players and leaves current_match as it is.
C13_ObserversNeverPlay ==
    [][ /\ (last'.op \in {"match", "test"} /\ last'.ret = "accepted")
            => (Range(current_match'.team_1) \cup Range(current_match'.team_2))
                  \cap current_observers = {}
        /\ ( /\ last'.op = "match"
             /\ ~current_match.active
             /\ \A u \in Callers : guild.voice[u] # NoVoice
             /\ Cardinality(InCallersChannel \ current_observers) < 2 )
            => /\ last'.ret = "too_few"
               /\ current_match' = current_match
               /\ views' = views ]_vars

\* A match command was turned down for too few players in a channel of two
\* members, one of them an observer.
C13_Witness ==
    /\ last.op = "match"
    /\ last.ret = "too_few"
    /\ Cardinality(InCallersChannel) = 2
    /\ Cardinality(InCallersChannel \cap current_observers) = 1

\* The views of the matches started by the match command, and the time the
\* last of them was started.
MatchStarts == {v \in ViewIds : ~audit[v].test}
PreviousStart ==
    audit[CHOOSE v \in MatchStarts : \A w \in MatchStarts : w <= v].at
\* This step resumes a match command after its defer: the clock is read and
\* the age of the last lobby is tested (lines 903-904).
ReadsClock ==
    \E t \in Suspended :
        /\ t.kind = "match"
        /\ t.pc = "defer"
        /\ CopiesIn(t, tasks') < CopiesIn(t, tasks)

\* C14: a match command that reads the clock more than an hour after the
\* previous match was started clears current_observers, and one that reads
\* it an hour or less after the previous match was started leaves
\* current_observers as it is.
C14_ClearedByAgeOfLastStart ==
    [][ (ReadsClock /\ MatchStarts # {})
          => IF now - PreviousStart > HourInTicks
             THEN current_observers' = {}
             ELSE current_observers' = current_observers ]_vars

\* The live database file, the live backup file and the cache are after the
\* step what they were before it.
LiveDataUnchanged ==
    /\ files'[DATA_FILE] = files[DATA_FILE]
    /\ files'[BACKUP_DATA_FILE] = files[BACKUP_DATA_FILE]
    /\ files'[TmpOf(DATA_FILE)] = files[TmpOf(DATA_FILE)]
    /\ cache' = cache

\* C15: the step that starts a match by the test command, and every step in
\* which a win trigger of that match's view backs up and updates ratings,
\* leave the live database file, the live backup file and the cache
\* unchanged.
C15_TestMatchLeavesLiveData ==
    [][ /\ (last'.op = "test" /\ last'.ret = "accepted") => LiveDataUnchanged
        /\ \A v \in ViewIds :
              (audit[v].test /\ audit'[v].rated # audit[v].rated)
                 => LiveDataUnchanged ]_vars

\* This step starts, resumes or ends a cancel handler.
CancelStep ==
    \E t \in BagToSet(tasks) \cup BagToSet(tasks') :
        /\ t.kind = "cancel"
        /\ CopiesIn(t, tasks) # CopiesIn(t, tasks')

\* C16: no step of a cancel handler changes a database file, a backup file
\* or the cache.
C16_CancelLeavesRatingData ==
    [][ CancelStep => (files' = files /\ cache' = cache) ]_vars

\* A match whose lobby was started has been cancelled, with ratings of an
\* earlier match on disk and in the cache.
C16_Witness ==
    \E v \in ViewIds :
        /\ audit[v].cancelled
        /\ audit[v].rated = 0
        /\ views[v].lobby_started
        /\ nUpdates >= 1
        /\ cache.loaded
        /\ exists(files, DATA_FILE) \/ exists(files, TEST_DATA_FILE)

\* C17: when the team channels are deleted, nobody sits in them any more:
\* whoever was in a team channel has been moved back to the lobby first.
C17_MovedBackBeforeDeletion ==
    [][ (guild.vcs /\ ~guild'.vcs)
          => \A m \in Members : guild.voice[m] # TeamVC ]_vars

\* The match of view v is live: it is the match current_match describes and
\* no win or cancel has been accepted for it.
Live(v) == v = Len(views) /\ current_match.active
\* The enabled controls in LobbyStarted.
LobbyStarted == {"cancel", "win"}

\* C18: while a match is live, the enabled controls of its view, and of the
\* message that shows them, are either Start Lobby and Cancel (Forming) or
\* Red Wins, Blue Wins and Cancel (LobbyStarted); the view is in the second
\* state exactly when its lobby was started, and the message shows the
\* second state only then.
C18_TwoEnablementStates ==
    \A v \in ViewIds :
        Live(v) =>
            /\ views[v].children
                  = (IF views[v].lobby_started THEN LobbyStarted ELSE Forming)
            /\ views[v].message \in {Forming, LobbyStarted}
            /\ views[v].message = LobbyStarted => views[v].lobby_started

\* A live match whose Start Lobby has completed: the message shows Red Wins,
\* Blue Wins and Cancel.
C18_Witness ==
    \E v \in ViewIds :
        /\ Live(v)
        /\ views[v].lobby_started
        /\ views[v].message = LobbyStarted
        /\ tasks = EmptyBag

\* This step resumes a cancel handler after its defer and the handler finds
\* a match active: the cancel is accepted.
CancelAccepted ==
    /\ current_match.active
    /\ \E t \in Suspended :
          /\ t.kind = "cancel"
          /\ t.pc = "cancel_defer"
          /\ CopiesIn(t, tasks') < CopiesIn(t, tasks)

\* C19: a rating update is applied to the rosters of a match only when that
\* match's lobby was started; and a live match whose lobby was not started
\* stops being live in Forming only by a step that starts its lobby or that
\* accepts a cancel.
C19_LifecycleOrder ==
    [][ /\ (nUpdates' > nUpdates /\ current_match.team_1 # << >>)
            => views[Len(views)].lobby_started
        /\ \A v \in ViewIds :
              (Live(v) /\ ~views[v].lobby_started /\ ~current_match'.active)
                 => CancelAccepted ]_vars

\* The stage logs of the resolutions in flight and of the one that ended
\* last.
Logs == {t.log : t \in Suspended} \cup {last.log}

\* Stage b is in the log only after stage a.
Earlier(log, a, b) ==
    \A i \in DOMAIN log : log[i] = b => \E j \in 1..(i - 1) : log[j] = a

\* Stage a, when the resolution goes through it, is over before stage b.
NotAfter(log, a, b) ==
    \A i, j \in DOMAIN log : (log[i] = a /\ log[j] = b) => i < j

ResolutionOrder(log) ==
    /\ Earlier(log, "backup", "update")
    /\ Earlier(log, "update", "moves")
    /\ Earlier(log, "update", "delete")
    /\ Earlier(log, "reset", "announce")
    /\ Earlier(log, "update", "replay")
    /\ Earlier(log, "reset", "replay")
    /\ NotAfter(log, "moves", "replay")
    /\ NotAfter(log, "delete", "replay")

\* This step applies a rating update and leaves in the backup of the
\* database it updates what that database held before the step.
BackupHoldsPrevious ==
    LET data_file == IF current_match.test_mode THEN TEST_DATA_FILE ELSE None
        path == IF data_file = None THEN DATA_FILE ELSE data_file
    IN exists(files, path) => files'[BackupPathOf(data_file)] = files[path]

\* This step ends a replay flow.
ReplayStep ==
    \E t \in Suspended : t.pc = "win_replay" /\ tasks' = End(t)

\* C20: every resolution backs the database up before it updates it, updates
\* it before it moves players or deletes channels, resets the match state
\* before it announces the result, and begins the replay flow only after the
\* update, the teardown and the reset; and however a replay flow ends, the
\* rating files, the ratings read and the match state are as they were.
C20_ResolutionOrder ==
    [][ /\ \A log \in Logs' : ResolutionOrder(log)
        /\ nUpdates' > nUpdates => BackupHoldsPrevious
        /\ ReplayStep =>
              /\ files' = files
              /\ current_match' = current_match
              /\ load_data(files', cache', None).data
                    = load_data(files, cache, None).data ]_vars

\* A resolution went through every stage and its replay upload failed.
C20_Witness ==
    /\ last.op = "resolve"
    /\ last.ret = "upload_failed"
    /\ last.log = << "backup", "update", "moves", "delete", "reset",
                     "announce", "replay" >>

\* No handler pressed on view v is in flight.
Quiet(v) == \A t \in Suspended : t.view # v \/ t.kind \notin {"win", "cancel", "start"}

\* C21: with the auto-replay setting on, the replay flow begins at most once
\* for a match, never for a test match and never for a match that was
\* cancelled and not rated; and once the handlers of a rated live match are
\* over, it has begun exactly once.
C21_ReplayOncePerLiveMatch ==
    \A v \in ViewIds :
        /\ audit[v].replays <= 1
        /\ audit[v].test => audit[v].replays = 0
        /\ (audit[v].cancelled /\ audit[v].rated = 0) => audit[v].replays = 0
        /\ (~audit[v].test /\ audit[v].rated >= 1 /\ Quiet(v)
              /\ bot_settings.auto_replay)
             => audit[v].replays = 1

\* How old, in seconds, the file the flow picked is.
AgeOfLatest == ReplayClock - last.latest_file.mtime

FolderThere == snap.folder_set /\ snap.folder_exists

\* C22: the flow ends on the first check that fails, in the order folder
\* missing, folder empty, too old, too large; the newest file passes the age
\* check at an age of AUTO_REPLAY_MAX_AGE_SECONDS or less and fails it one
\* second older; and a file is uploaded only when all four checks pass.
C22_ReplayChecksInOrder ==
    last.op = "replay" =>
        /\ last.ret = "folder_missing" <=> ~FolderThere
        /\ last.ret = "folder_empty"
              <=> (FolderThere /\ snap.list_of_files = {})
        /\ last.ret = "too_old"
              <=> /\ FolderThere
                  /\ snap.list_of_files # {}
                  /\ AgeOfLatest >= 901
        /\ last.ret = "too_large"
              <=> /\ FolderThere
                  /\ snap.list_of_files # {}
                  /\ AgeOfLatest <= 900
                  /\ last.latest_file.size > LimitBytes
        /\ last.ret \in {"uploaded", "upload_failed"}
              <=> /\ FolderThere
                  /\ snap.list_of_files # {}
                  /\ AgeOfLatest <= 900
                  /\ last.latest_file.size <= LimitBytes
        /\ last.ret \in ReplayOutcomes

\* The newest file is exactly 900 seconds old and is uploaded, out of a
\* folder that also holds an older file.
C22_Witness ==
    /\ last.op = "replay"
    /\ last.ret = "uploaded"
    /\ AgeOfLatest = 900
    /\ \E f \in snap.list_of_files : ReplayClock - f.mtime = 901

\* Entry i of the history in snap is the last of its session: it is the last
\* entry, or the next entry comes more than 28800 seconds after it.
SessionEnd(i) ==
    \/ i = Len(snap)
    \/ /\ i < Len(snap)
       /\ snap[i + 1].timestamp - snap[i].timestamp >= 28801

SessionEnds == {i \in DOMAIN snap : SessionEnd(i)}

\* C23: graphall's grouping has one point for each session, in order, at the
\* timestamp and with the MMR of the session's last entry, where an entry
\* 28800 seconds after the previous one continues the session and an entry
\* 28801 seconds after it begins a new one.
C23_OnePointPerSession ==
    last.op = "graphall" =>
        /\ Len(last.session_data) = Cardinality(SessionEnds)
        /\ \A k \in DOMAIN last.session_data :
              \E i \in SessionEnds :
                  /\ Cardinality({j \in SessionEnds : j <= i}) = k
                  /\ last.session_data[k]
                       = [time |-> snap[i].timestamp, mmr |-> snap[i].mmr]

\* Three matches, the second exactly the gap after the first and the third
\* the gap and a second after the second: two sessions, two points.
C23_Witness ==
    /\ last.op = "graphall"
    /\ Len(snap) = 3
    /\ snap[2].timestamp - snap[1].timestamp = 28800
    /\ snap[3].timestamp - snap[2].timestamp = 28801
    /\ snap[1].mmr # snap[2].mmr
    /\ last.session_data
         = << [time |-> snap[2].timestamp, mmr |-> snap[2].mmr],
              [time |-> snap[3].timestamp, mmr |-> snap[3].mmr] >>

\* The entries of the history in snap that are no more than 28800 seconds
\* older than the time the commands are run at.
InSession ==
    {i \in DOMAIN snap.history_list :
        snap.history_list[i].timestamp >= snap.current_time - 28800}

\* The k-th most recent entry of the session.
KthRecent(k) ==
    CHOOSE i \in InSession : Cardinality({j \in InSession : j >= i}) = k

\* The smaller of two numbers.
Min(a, b) == IF a < b THEN a ELSE b

\* C24: history answers "no matches in the current session" exactly when no
\* entry of the player's history has a timestamp of now - 28800 or later;
\* otherwise it lists exactly those entries, the most recent first, and
\* displays the first 15 of the list with the number of the others; stats
\* reports as many wins and losses as the history has entries, whenever they
\* were played.
C24_HistoryIsTheSession ==
    LET h == snap.history_list
        r == last.reply.history
        st == last.reply.stats
    IN
    /\ (last.op = "history" \/ (last.op = "stats" /\ r.ret # "none")) =>
          /\ r.ret = "no matches in the current session" <=> InSession = {}
          /\ r.ret = "recap" <=> InSession # {}
          /\ r.ret = "recap" =>
                /\ Len(r.recent_matches) = Cardinality(InSession)
                /\ \A k \in DOMAIN r.recent_matches :
                      /\ r.recent_matches[k].timestamp
                           = h[KthRecent(k)].timestamp
                      /\ r.recent_matches[k].total = h[KthRecent(k)].mmr
                      /\ r.recent_matches[k].result = "WIN"
                           <=> h[KthRecent(k)].result = "Win"
                /\ r.display
                     = SubSeq(r.recent_matches, 1,
                              Min(15, Len(r.recent_matches)))
                /\ r.older = Len(r.recent_matches) - Len(r.display)
    /\ st.ret = "stats" =>
          /\ st.wins + st.losses = Len(h)
          /\ st.wins
               = Cardinality({i \in DOMAIN h : h[i].result = "Win"})

\* Both commands were run for a player with two or more matches, the last of
\* them 28801 seconds ago: history finds no match in the session, stats
\* reports them all.
C24_Witness ==
    /\ Len(snap.history_list) >= 2
    /\ snap.current_time
         - snap.history_list[Len(snap.history_list)].timestamp = 28801
    /\ last.reply.history.ret = "no matches in the current session"
    /\ last.reply.stats.ret = "stats"
    /\ last.reply.stats.wins + last.reply.stats.losses
         = Len(snap.history_list)

\* This step resumes win handler t at its rating update.
Rates(t) ==
    /\ t.kind = "win"
    /\ t.pc = "win_edit"
    /\ CopiesIn(t, tasks') < CopiesIn(t, tasks)
    /\ nUpdates' > nUpdates

\* C25: the rosters a win handler passes to update_ratings are the rosters
\* current_match held when that handler's win trigger passed the check of
\* the active flag.
C25_RatesAcceptedRosters ==
    [][ \A t \in Suspended :
           Rates(t) =>
              t.rosters = << current_match.team_1, current_match.team_2 >> ]_vars

\* This step accepts a win press on view v: a win handler of v starts and
\* suspends at its defer.
WinAccepted(v) ==
    \E t \in BagToSet(tasks') :
        /\ t.kind = "win"
        /\ t.view = v
        /\ t.pc = "win_defer"
        /\ CopiesIn(t, tasks') > CopiesIn(t, tasks)

\* This step accepts a cancel press on view v.
CancelAcceptedOn(v) ==
    /\ current_match.active
    /\ \E t \in Suspended :
          /\ t.kind = "cancel"
          /\ t.view = v
          /\ t.pc = "cancel_defer"
          /\ CopiesIn(t, tasks') < CopiesIn(t, tasks)

\* C26: while a match is active, a step changes current_match (the active
\* flag, the rosters, the lobby channel, the test mode) only by accepting a
\* win press or a cancel press.
C26_ActiveUntilWinOrCancel ==
    [][ (current_match.active /\ current_match' # current_match)
           => \E v \in ViewIds : WinAccepted(v) \/ CancelAcceptedOn(v) ]_vars

\* The win handlers in flight that have not reached their state reset, each
\* with the number of its invocations.
Resolving ==
    {t \in Suspended :
        /\ t.kind = "win"
        /\ t.pc \in {"win_defer", "win_edit", "win_moves", "win_delete"}}

\* C27: at most one resolution, from its accepted win press to its state
\* reset, is in progress.
C27_OneResolutionAtATime ==
    /\ Cardinality(Resolving) <= 1
    /\ \A t \in Resolving : CopiesIn(t, tasks) = 1

\* C28: a message whose four buttons a win or a cancel handler has disabled
\* shows no enabled button ever after.
C28_FinalizedStaysDisabled ==
    [][ \A v \in ViewIds :
           views[v].message = AllDisabled
              => views'[v].message = AllDisabled ]_vars

\* The match started last has been cancelled or rated and no handler is in
\* flight.
AllOver ==
    /\ views # << >>
    /\ tasks = EmptyBag
    /\ ~current_match.active
    /\ audit[Len(views)].cancelled \/ audit[Len(views)].rated >= 1

\* C29: once the match started last has been cancelled or rated and every
\* handler has finished, the guild has no Team Red or Team Blue channel.
C29_NoTeamChannelsLeft == AllOver => ~guild.vcs

\* C30: a live backup file that exists holds a complete database, the live
\* database as it was before the last live rating update that rated a
\* player.
C30_BackupIsBeforeLastUpdate ==
    exists(files, BACKUP_DATA_FILE) =>
        /\ ~files[BACKUP_DATA_FILE].torn
        /\ snap.valid
        /\ files[BACKUP_DATA_FILE].db = snap.db

\* The database in the live file, an absent file counting as the empty one.
LiveFileDB(fs) ==
    IF exists(fs, DATA_FILE) THEN fs[DATA_FILE].db ELSE EmptyDB

\* The cache, if populated, is the content of the live file.
Coherent(fs, c) ==
    c.loaded => (~fs[DATA_FILE].torn /\ c.data = LiveFileDB(fs))

\* C31: after every call of the store, for the live or for the test
\* environment, the cache, if populated, equals the content of the live
\* file; and after a restore of the live database the next read returns what
\* the backup file held.
C31_CacheCoherence ==
    [][ /\ Coherent(files', cache')
        /\ (last'.op = "restore_backup" /\ last'.ret = "True" /\ env = None)
              => /\ load_data(files', cache', None).ok
                 /\ load_data(files', cache', None).data
                      = files[BACKUP_DATA_FILE].db ]_vars

\* A restore of the live database has returned True and has dropped the
\* cache, after a rating update since the backup and with a test database on
\* disk.
C31_Witness ==
    /\ last.op = "restore_backup" /\ last.ret = "True" /\ env = None
    /\ ~cache.loaded
    /\ exists(files, DATA_FILE)
    /\ exists(files, TEST_DATA_FILE)
    /\ nUpdates > snap.updates

\* Every record of `db` has a history, and the mmr of its last entry is the
\* integer ordinal of the record's mu and sigma.
WellFormed(db) ==
    \A p \in DOMAIN db :
        /\ db[p].history # << >>
        /\ db[p].history[Len(db[p].history)].mmr
              = int(ordinal(rating(db[p].mu, db[p].sigma)))

\* Every database of the state is well formed: the complete files and the
\* cache.
AllWellFormed(fs, c) ==
    /\ \A path \in Paths : (exists(fs, path) /\ ~fs[path].torn) => WellFormed(fs[path].db)
    /\ c.loaded => WellFormed(c.data)

\* What ladder and stats show for pid: the mmr of the last history entry.
ladder_mmr(db, pid) == db[pid].history[Len(db[pid].history)].mmr

BackupOf(path) == IF path = DATA_FILE THEN BACKUP_DATA_FILE ELSE TEST_BACKUP_DATA_FILE

\* C32: in every database state every stored record has a non-empty history
\* whose last mmr is the integer ordinal of the stored mu and sigma, so that
\* ladder and stats agree with get_player_ordinal; and a record appears in
\* a database only with the entry of a match completed at that moment, or
\* by the restore of a backup that holds it.
C32_RecordsFollowHistory ==
    [][ /\ AllWellFormed(files, cache)
        /\ AllWellFormed(files', cache')
        /\ \A d \in DataFiles :
              LET l == load_data(files', cache', d) IN
              l.ok => \A p \in DOMAIN l.data :
                        get_player_ordinal(files', cache', p, d) = ladder_mmr(l.data, p)
        /\ \A path \in {DATA_FILE, TEST_DATA_FILE} :
              \A p \in DOMAIN files'[path].db \ DOMAIN files[path].db :
                 \/ /\ nUpdates' = nUpdates + 1
                    /\ Len(files'[path].db[p].history) = 1
                    /\ files'[path].db[p].history[1].timestamp = now
                 \/ /\ nUpdates' = nUpdates
                    /\ p \in DOMAIN files[BackupOf(path)].db
                    /\ files'[path].db = files[BackupOf(path)].db ]_vars

\* The first match, of members 1 and 2, has been rated into the live
\* database: both have a record with one history entry, member 3, who has
\* completed no match, has none, and the cache holds the database.
C32_Witness ==
    /\ exists(files, DATA_FILE)
    /\ nUpdates = 1
    /\ DOMAIN files[DATA_FILE].db = {1, 2}
    /\ Len(files[DATA_FILE].db[1].history) = 1
    /\ cache.loaded
    /\ cache.data = files[DATA_FILE].db

\* No handler of a match message (start, win or cancel) is suspended.
NoControlInFlight ==
    \A t \in Suspended : t.kind \notin {"win", "cancel", "start"}

\* C33: whenever no match is active and no handler of a match message is in
\* flight, current_match is as the module creates it: no teams, no lobby
\* channel, test_mode off.
C33_InactiveIsIdle ==
    (~current_match.active /\ NoControlInFlight) => current_match = Idle

\* A win press on message v has passed the check of resolve_match and its
\* handler has not yet rated.
WinPending(v) ==
    \E t \in Suspended : t.kind = "win" /\ t.view = v
                            /\ t.pc \in {"win_defer", "win_edit"}

\* The ratings have been updated exactly once for message v and
\* current_match is Idle.
ResolvedOnce(v) ==
    /\ v \in ViewIds
    /\ audit[v].rated = 1
    /\ current_match = Idle

\* A message shows an enabled win or Cancel button.
ControlShown ==
    \E v \in ViewIds : views[v].message \cap {"win", "cancel"} # {}

\* C34: with every suspended handler eventually resumed, every accepted win
\* press leads to a state where the ratings have been updated exactly once
\* for its match and current_match is Idle; and while a match is active a
\* message shows an enabled win or Cancel button.
C34_WinLeadsToIdle ==
    /\ \A v \in 1..MaxMatches : WinPending(v) ~> ResolvedOnce(v)
    /\ [](current_match.active => ControlShown)

\* The timestamps of the entries of the database in snap that are not before
\* the cutoff of the views, that is, the session.
SessionTimes ==
    {t \in UNION {{snap.data[p].history[i].timestamp : i \in DOMAIN snap.data[p].history}
                  : p \in DOMAIN snap.data}
        : t >= snap.current_time - SESSION_GAP_SECONDS}

\* The k-th timestamp of the session, in ascending order.
KthTime(k) ==
    CHOOSE t \in SessionTimes : Cardinality({u \in SessionTimes : u < t}) = k - 1

\* The players with an entry in the session.
SessionPlayers ==
    {p \in DOMAIN snap.data :
        \E i \in DOMAIN snap.data[p].history :
            snap.data[p].history[i].timestamp \in SessionTimes}

\* The entries of player p at time t.
EntriesAt(p, t) ==
    {snap.data[p].history[i] :
        i \in {j \in DOMAIN snap.data[p].history :
                  snap.data[p].history[j].timestamp = t}}

\* C35: the text view returns nothing when the session has no timestamp;
\* otherwise it has a row for exactly the players with an entry in the
\* session, every row has one glyph per session timestamp, and the k-th
\* glyph is win, loss or did-not-play as the player has an entry with result
\* Win, an entry with result Loss, or no entry at the k-th timestamp.
C35_TextViewOfTheSession ==
    last.reply.text # NoReply =>
        LET view == last.reply.text IN
        IF SessionTimes = {} THEN view.ret = "None"
        ELSE /\ view.ret = "text"
             /\ DOMAIN view.results = SessionPlayers
             /\ \A p \in SessionPlayers :
                   /\ Len(view.results[p]) = Cardinality(SessionTimes)
                   /\ \A k \in 1..Cardinality(SessionTimes) :
                         LET g == view.results[p][k]
                             at == EntriesAt(p, KthTime(k))
                         IN /\ g \in {"win", "loss", "did_not_play"}
                            /\ g = "did_not_play" <=> at = {}
                            /\ g = "win" => \E m \in at : m.result = "Win"
                            /\ g = "loss" => \E m \in at : m.result = "Loss"

\* The text view has been generated for a session of two timestamps in
\* which one player won, lost and another sat a match out, a match before
\* the cutoff left out.
C35_Witness ==
    /\ last.reply.text # NoReply
    /\ last.reply.text.ret = "text"
    /\ Cardinality(SessionTimes) = 2
    /\ \E p \in SessionPlayers : last.reply.text.results[p] = << "win", "loss" >>
    /\ \E p \in SessionPlayers : "did_not_play" \in Range(last.reply.text.results[p])
    /\ \E p \in DOMAIN snap.data : \E i \in DOMAIN snap.data[p].history :
          snap.data[p].history[i].timestamp \notin SessionTimes

\* The text view has returned nothing: every match is before the cutoff.
C35_WitnessNone ==
    /\ last.reply.text # NoReply
    /\ last.reply.text.ret = "None"
    /\ snap.data # EmptyDB

\* The entries of player p before the cutoff, in history order.
PastOf(p) ==
    SelectSeq(snap.data[p].history,
              LAMBDA m : m.timestamp < snap.current_time - SESSION_GAP_SECONDS)

\* C36: the chart has a line for every player with an entry in the session;
\* the line has one point more than the session has timestamps; point 0 is
\* the mmr of the player's last entry before the cutoff, or the ordinal of
\* the default rating; point k is the mmr of the player's entry at the k-th
\* timestamp, or point k-1 if the player has none.
C36_ChartViewOfTheSession ==
    (last.reply.graph # NoReply /\ SessionTimes # {}) =>
        LET view == last.reply.graph IN
        /\ view.ret = "file"
        /\ DOMAIN view.lines = SessionPlayers
        /\ \A p \in SessionPlayers :
              LET y == view.lines[p] IN
              /\ Len(y) = Cardinality(SessionTimes) + 1
              /\ y[1] = IF PastOf(p) # << >>
                        THEN PastOf(p)[Len(PastOf(p))].mmr
                        ELSE int(ordinal(DefaultRating))
              /\ \A k \in 1..Cardinality(SessionTimes) :
                    LET at == EntriesAt(p, KthTime(k)) IN
                    IF at = {} THEN y[k + 1] = y[k]
                    ELSE \E m \in at : y[k + 1] = m.mmr

\* The chart has been generated for a player with two matches before the
\* cutoff, at different ratings, and a match in the session.
C36_Witness ==
    /\ last.reply.graph # NoReply
    /\ last.reply.graph.ret = "file"
    /\ \E p \in SessionPlayers :
          /\ Len(PastOf(p)) = 2
          /\ PastOf(p)[1].mmr # PastOf(p)[2].mmr

====
